---- MODULE Spec2Model ----
(***************************************************************************)
(* A model of scripts/docml2json/docml2json.py: the conversion of .docml   *)
(* source text into a PortableDocument.                                    *)
(*                                                                         *)
(* A Python str is modelled as a sequence of one-character strings, so     *)
(* that the regular expressions, strip() and startswith() of the source    *)
(* are computed character by character.  A dict is a record (or a function *)
(* on its keys); a key the source leaves out is left out of the record.    *)
(***************************************************************************)
EXTENDS Integers, Sequences, FiniteSets, TLC

VARIABLES
    pc,             \* the point control has reached in the function under study
    text,           \* split_sections / convert_docml: text, as text.split('\n')
    ln,             \* split_sections: number of lines of text already looped over
    sections,       \* split_sections / convert_docml: sections
    current,        \* split_sections: current
    current_lines,  \* split_sections: current_lines
    in_content,     \* split_sections: in_content
    lines,          \* parse_content: lines
    roles_map,      \* parse_content / convert_docml: roles_map
    i,              \* parse_content: i
    nodes,          \* parse_content: nodes
    iter,           \* parse_content: iterations of the main loop run so far
    variable_ids,   \* convert_docml: variable_ids
    tokens,         \* parse_inline: tokens
    tok_no,         \* parse_inline: number of tokens already looped over
    bold,           \* parse_inline: bold
    italic,         \* parse_inline: italic
    underline,      \* parse_inline: underline
    meta_info,      \* convert_docml: meta_info
    roles,          \* convert_docml: roles
    workflow,       \* convert_docml: workflow
    document,       \* convert_docml: document
    raised,         \* convert_docml: the exception raised, if any
    written,        \* convert_docml: whether the output file has been opened for writing
    arg,            \* the argument of the function under study
    ret             \* the value the function under study builds and returns

splitVars == <<text, ln, sections, current, current_lines, in_content>>
contentVars == <<lines, roles_map, i, nodes, iter, variable_ids>>
inlineVars == <<tokens, tok_no, bold, italic, underline>>
convertVars == <<meta_info, roles, workflow, document, raised, written>>
callVars == <<arg, ret>>

vars == <<pc, splitVars, contentVars, inlineVars, convertVars, callVars>>

(***************************************************************************)
(* Characters and strings                                                  *)
(***************************************************************************)

\* Python's None.
None == "None"

\* The characters str.strip() removes and \s matches.
Whitespace == {" ", "\t"}

\* The characters \d matches.
Digits == {"0", "1", "2", "3", "4", "5", "6", "7", "8", "9"}

\* The characters \w matches.
WordChars ==
    {"a", "b", "c", "d", "e", "f", "g", "h", "i", "j", "k", "l", "m",
     "n", "o", "p", "q", "r", "s", "t", "u", "v", "w", "x", "y", "z",
     "A", "B", "C", "D", "E", "F", "G", "H", "I", "J", "K", "L", "M",
     "N", "O", "P", "Q", "R", "S", "T", "U", "V", "W", "X", "Y", "Z",
     "_"} \cup Digits

\* The characters of the model in code-point order (sorted() compares by it).
CodePoints ==
    <<"\t", " ", "#", "(", ")", "*", ",", "-", ".",
      "0", "1", "2", "3", "4", "5", "6", "7", "8", "9", ":", "=", "@",
      "A", "B", "C", "D", "E", "F", "G", "H", "I", "J", "K", "L", "M",
      "N", "O", "P", "Q", "R", "S", "T", "U", "V", "W", "X", "Y", "Z",
      "[", "]", "_",
      "a", "b", "c", "d", "e", "f", "g", "h", "i", "j", "k", "l", "m",
      "n", "o", "p", "q", "r", "s", "t", "u", "v", "w", "x", "y", "z", "|">>

ord(c) == CHOOSE k \in 1..Len(CodePoints) : CodePoints[k] = c

\* s[n:]
From(s, n) == SubSeq(s, n, Len(s))

\* s.startswith(p)
startswith(s, p) == Len(s) >= Len(p) /\ SubSeq(s, 1, Len(p)) = p

\* The number of leading characters of s that are in set S.
RECURSIVE Span(_, _)
Span(s, S) ==
    IF s # <<>> /\ Head(s) \in S THEN 1 + Span(Tail(s), S) ELSE 0

\* The number of trailing characters of s that are in set S.
RECURSIVE SpanBack(_, _)
SpanBack(s, S) ==
    IF s # <<>> /\ s[Len(s)] \in S
    THEN 1 + SpanBack(SubSeq(s, 1, Len(s) - 1), S) ELSE 0

lstrip(s) == From(s, Span(s, Whitespace) + 1)
rstrip(s) == SubSeq(s, 1, Len(s) - SpanBack(s, Whitespace))

\* s.strip()
strip(s) == rstrip(lstrip(s))

\* The least index p >= from with s[p] = c, or 0 when there is none.
RECURSIVE Find(_, _, _)
Find(s, c, from) ==
    IF from > Len(s) THEN 0
    ELSE IF s[from] = c THEN from
    ELSE Find(s, c, from + 1)

\* The greatest index p with s[p] = c, or 0 when there is none.
RECURSIVE RFind(_, _, _)
RFind(s, c, upto) ==
    IF upto < 1 THEN 0
    ELSE IF s[upto] = c THEN upto
    ELSE RFind(s, c, upto - 1)

\* s.split(c): the pieces of s between the occurrences of character c.
RECURSIVE SplitOn(_, _)
SplitOn(s, c) ==
    LET p == Find(s, c, 1)
    IN  IF p = 0 THEN <<s>>
        ELSE <<SubSeq(s, 1, p - 1)>> \o SplitOn(From(s, p + 1), c)

\* All characters of s are in S.
AllIn(s, S) == \A k \in 1..Len(s) : s[k] \in S

\* s < t in Python's order on str.
RECURSIVE StrLess(_, _)
StrLess(s, t) ==
    IF t = <<>> THEN FALSE
    ELSE IF s = <<>> THEN TRUE
    ELSE IF Head(s) = Head(t) THEN StrLess(Tail(s), Tail(t))
    ELSE ord(Head(s)) < ord(Head(t))

\* sorted(S) for a finite set S of str.
RECURSIVE sorted(_)
sorted(S) ==
    IF S = {} THEN <<>>
    ELSE LET m == CHOOSE x \in S : \A y \in S \ {x} : StrLess(x, y)
         IN  <<m>> \o sorted(S \ {m})

\* The sequences over S of length at most n.
SeqsUpTo(S, n) == UNION {[1..k -> S] : k \in 0..n}

\* The concatenation of a sequence of sequences.
RECURSIVE Concat(_)
Concat(ss) == IF ss = <<>> THEN <<>> ELSE Head(ss) \o Concat(Tail(ss))

(***************************************************************************)
(* make_id                                                                 *)
(***************************************************************************)

\* uuid5(NAMESPACE_URL, seed) is a digest of the seed alone: it is kept as
\* the seed it was derived from, so that equal seeds give equal ids and
\* different seeds different ids.
make_id(seed) == [uuid5 |-> seed]

(***************************************************************************)
(* Inline parsing                                                          *)
(***************************************************************************)

\* The length of the match of _INLINE_TOKEN_RE that starts at s[p], or 0.
\* The alternatives are tried in the order of the pattern.
TokenLen(s, p) ==
    LET close == Find(s, "]", p + 1)
    IN  IF s[p] = "*" /\ p < Len(s) /\ s[p + 1] = "*" THEN 2
        ELSE IF /\ s[p] = "*"
                /\ (p = 1 \/ s[p - 1] # "*")
                /\ (p = Len(s) \/ s[p + 1] # "*") THEN 1
        ELSE IF s[p] = "_" /\ p < Len(s) /\ s[p + 1] = "_" THEN 2
        ELSE IF s[p] = "[" /\ close > p + 1 THEN close - p + 1
        ELSE 0

\* _INLINE_TOKEN_RE.split(s): the text before each match, the match, and the
\* text after the last match, in one flat list (empty texts included).
RECURSIVE TokenSplit(_, _, _)
TokenSplit(s, p, start) ==
    IF p > Len(s) THEN <<SubSeq(s, start, Len(s))>>
    ELSE LET n == TokenLen(s, p)
         IN  IF n > 0
             THEN <<SubSeq(s, start, p - 1), SubSeq(s, p, p + n - 1)>>
                  \o TokenSplit(s, p + n, p + n)
             ELSE TokenSplit(s, p + 1, start)

\* The groups of _INJECTOR_RE on tok, or <<>> when it does not match:
\* '[', two or three non-empty parts without '|' or ']' separated by '|', ']'.
InjectorGroups(tok) ==
    LET inner == SubSeq(tok, 2, Len(tok) - 1)
        parts == SplitOn(inner, "|")
    IN  IF /\ Len(tok) >= 2
           /\ tok[1] = "["
           /\ tok[Len(tok)] = "]"
           /\ Find(inner, "]", 1) = 0
           /\ Len(parts) \in {2, 3}
           /\ \A k \in 1..Len(parts) : parts[k] # <<>>
        THEN parts
        ELSE <<>>

_make_injector_node(var_id, label, var_type) ==
    [type |-> "injector",
     attrs |-> [type |-> var_type,
                label |-> label,
                variableId |-> var_id,
                format |-> None,
                required |-> FALSE,
                prefix |-> None,
                suffix |-> None,
                showLabelIfEmpty |-> FALSE,
                defaultValue |-> None,
                width |-> None,
                isRoleVariable |-> FALSE,
                roleId |-> None,
                roleLabel |-> None,
                propertyKey |-> None]]

\* The marks list built for a text run.
MarksList(b, it, u) ==
    (IF b THEN <<[type |-> "bold"]>> ELSE <<>>)
    \o (IF it THEN <<[type |-> "italic"]>> ELSE <<>>)
    \o (IF u THEN <<[type |-> "underline"]>> ELSE <<>>)

\* The node appended for a token that is no toggle.
InlineNode(tok, b, it, u) ==
    LET inj == InjectorGroups(tok)
        marks == MarksList(b, it, u)
    IN  IF inj # <<>>
        THEN _make_injector_node(strip(inj[1]), strip(inj[2]),
                 IF Len(inj) = 3 THEN strip(inj[3]) ELSE <<"T", "E", "X", "T">>)
        ELSE IF marks # <<>>
        THEN [type |-> "text", text |-> tok, marks |-> marks]
        ELSE [type |-> "text", text |-> tok]

\* The for loop of parse_inline over toks[k..], from the flags b (bold),
\* it (italic), u (underline): the nodes it appends.
RECURSIVE InlineLoop(_, _, _, _, _)
InlineLoop(toks, k, b, it, u) ==
    IF k > Len(toks) THEN <<>>
    ELSE LET tok == toks[k]
         IN  IF tok = <<>> THEN InlineLoop(toks, k + 1, b, it, u)
             ELSE IF tok = <<"*", "*">> THEN InlineLoop(toks, k + 1, ~b, it, u)
             ELSE IF tok = <<"*">> THEN InlineLoop(toks, k + 1, b, ~it, u)
             ELSE IF tok = <<"_", "_">> THEN InlineLoop(toks, k + 1, b, it, ~u)
             ELSE <<InlineNode(tok, b, it, u)>> \o InlineLoop(toks, k + 1, b, it, u)

parse_inline(raw_text) ==
    IF raw_text = <<>> THEN <<>>
    ELSE InlineLoop(TokenSplit(raw_text, 1, 1), 1, FALSE, FALSE, FALSE)

(***************************************************************************)
(* Block-level helpers                                                     *)
(***************************************************************************)

_make_paragraph(txt, align) ==
    LET inl == parse_inline(txt)
    IN  IF align # None /\ inl # <<>>
        THEN [type |-> "paragraph", attrs |-> [textAlign |-> align], content |-> inl]
        ELSE IF align # None
        THEN [type |-> "paragraph", attrs |-> [textAlign |-> align]]
        ELSE IF inl # <<>>
        THEN [type |-> "paragraph", content |-> inl]
        ELSE [type |-> "paragraph"]

_make_heading(txt, level, align) ==
    LET inl == parse_inline(txt)
        attrs == IF align # None THEN [level |-> level, textAlign |-> align]
                 ELSE [level |-> level]
    IN  IF inl # <<>>
        THEN [type |-> "heading", attrs |-> attrs, content |-> inl]
        ELSE [type |-> "heading", attrs |-> attrs]

\* A list item whose paragraph is given an alignment.
_make_list_item_aligned(txt) ==
    [type |-> "listItem", content |-> <<_make_paragraph(txt, "left")>>]

_make_list_item(txt) ==
    [type |-> "listItem", content |-> <<_make_paragraph(txt, None)>>]

\* A loop over row_text[k..] that splits at every '|'.
RECURSIVE CellsLoopNoDepth(_, _, _, _, _)
CellsLoopNoDepth(row_text, k, cells, cur, depth) ==
    IF k > Len(row_text)
    THEN LET tail == strip(cur)
         IN  IF tail # <<>> THEN Append(cells, tail) ELSE cells
    ELSE LET ch == row_text[k]
         IN  IF ch = "|"
             THEN CellsLoopNoDepth(row_text, k + 1, Append(cells, strip(cur)), <<>>, depth)
             ELSE CellsLoopNoDepth(row_text, k + 1, cells, Append(cur, ch), depth)

\* The for loop of _split_table_cells over row_text[k..].
RECURSIVE CellsLoop(_, _, _, _, _)
CellsLoop(row_text, k, cells, cur, depth) ==
    IF k > Len(row_text)
    THEN LET tail == strip(cur)
         IN  IF tail # <<>> THEN Append(cells, tail) ELSE cells
    ELSE LET ch == row_text[k]
         IN  IF ch = "["
             THEN CellsLoop(row_text, k + 1, cells, Append(cur, ch), depth + 1)
             ELSE IF ch = "]"
             THEN CellsLoop(row_text, k + 1, cells, Append(cur, ch),
                            IF depth - 1 > 0 THEN depth - 1 ELSE 0)
             ELSE IF ch = "|" /\ depth = 0
             THEN CellsLoop(row_text, k + 1, Append(cells, strip(cur)), <<>>, depth)
             ELSE CellsLoop(row_text, k + 1, cells, Append(cur, ch), depth)

_split_table_cells(row_text) == CellsLoop(row_text, 1, <<>>, <<>>, 0)

_make_table_header_cell(txt) ==
    LET inl == parse_inline(txt)
    IN  IF inl # <<>> THEN [type |-> "tableHeader", content |-> inl]
        ELSE [type |-> "tableHeader"]

_make_table_data_cell(txt) ==
    LET inl == parse_inline(txt)
        attrs == [colspan |-> 1, rowspan |-> 1, colwidth |-> None, background |-> None]
    IN  IF inl # <<>> THEN [type |-> "tableCell", attrs |-> attrs, content |-> inl]
        ELSE [type |-> "tableCell", attrs |-> attrs]

\* _TABLE_ROW_RE matches s: '|', at least one character, '|', whitespace.
IsTableRow(s) ==
    LET t == rstrip(s)
    IN  Len(t) >= 3 /\ t[1] = "|" /\ t[Len(t)] = "|"

\* group(1) of _TABLE_ROW_RE on s.
TableRowInner(s) == SubSeq(rstrip(s), 2, Len(rstrip(s)) - 1)

\* lines[k] of the source (a Python list is indexed from 0).
At(ls, k) == ls[k + 1]

\* The first while loop of _parse_table_block: the index of the first line
\* at or after k that is no table row.
RECURSIVE TableRowsEnd(_, _)
TableRowsEnd(ls, k) ==
    IF k < Len(ls) /\ IsTableRow(strip(At(ls, k)))
    THEN TableRowsEnd(ls, k + 1) ELSE k

TableAttrs ==
    [headerFontFamily |-> None, headerFontSize |-> None,
     headerFontWeight |-> None, headerTextColor |-> None,
     headerTextAlign |-> None, headerBackground |-> None,
     bodyFontFamily |-> None, bodyFontSize |-> None,
     bodyFontWeight |-> None, bodyTextColor |-> None,
     bodyTextAlign |-> None]

\* A tableRow of header cells (hdr) or of data cells.
TableRow(row_text, hdr) ==
    LET cs == _split_table_cells(row_text)
    IN  [type |-> "tableRow",
         content |-> [k \in 1..Len(cs) |->
                        IF hdr THEN _make_table_header_cell(cs[k])
                        ELSE _make_table_data_cell(cs[k])]]

\* (table_node, next_index) as [ok, node, next]; ok is FALSE for (None, start_index).
_parse_table_block(ls, start_index) ==
    LET end == TableRowsEnd(ls, start_index)
        rows_data == [k \in 1..(end - start_index) |->
                        TableRowInner(strip(At(ls, start_index + k - 1)))]
    IN  IF rows_data = <<>>
        THEN [ok |-> FALSE, next |-> start_index]
        ELSE [ok |-> TRUE,
              node |-> [type |-> "table",
                        attrs |-> TableAttrs,
                        content |-> [k \in 1..Len(rows_data) |->
                                       TableRow(rows_data[k], k = 1)]],
              next |-> end]

(***************************************************************************)
(* Content parsing: the patterns                                           *)
(***************************************************************************)

_ALIGNMENT_PREFIXES ==
    <<[prefix |-> <<"@", "c", "e", "n", "t", "e", "r", " ">>, alignment |-> "center"],
      [prefix |-> <<"@", "r", "i", "g", "h", "t", " ">>, alignment |-> "right"],
      [prefix |-> <<"@", "j", "u", "s", "t", "i", "f", "y", " ">>, alignment |-> "justify"]>>

\* The for loop over _ALIGNMENT_PREFIXES: [align, content_line] for a line.
RECURSIVE AlignLoop(_, _)
AlignLoop(line, k) ==
    IF k > Len(_ALIGNMENT_PREFIXES) THEN [align |-> None, content_line |-> line]
    ELSE IF startswith(line, _ALIGNMENT_PREFIXES[k].prefix)
    THEN [align |-> _ALIGNMENT_PREFIXES[k].alignment,
          content_line |-> From(line, Len(_ALIGNMENT_PREFIXES[k].prefix) + 1)]
    ELSE AlignLoop(line, k + 1)

\* '\s+(.+)$' on t: [ok, text].  The whitespace is taken greedily and gives
\* one character back when nothing else is left for the group.
SpaceThenText(t) ==
    LET w == Span(t, Whitespace)
        rest == From(t, w + 1)
    IN  IF w >= 1 /\ rest # <<>> THEN [ok |-> TRUE, text |-> rest]
        ELSE IF w >= 2 THEN [ok |-> TRUE, text |-> <<t[w]>>]
        ELSE [ok |-> FALSE, text |-> <<>>]

\* _HEADING_RE on s: [ok, level, text].
HeadingMatch(s) ==
    LET n == Span(s, {"#"})
        m == SpaceThenText(From(s, n + 1))
    IN  [ok |-> n \in 1..3 /\ m.ok, level |-> n, text |-> m.text]

\* The ')' that closes the parameters of a checkbox directive whose reference
\* is followed by ',' at s[p]: ',\s*(.+?)\)' and then '\s+(.+)$'.  The lazy
\* group is extended before the whitespace ahead of it is given back.
CheckboxParamsClose(s, p) ==
    LET st == p + 1 + Span(From(s, p + 1), Whitespace)
        ok(q) == s[q] = ")" /\ SpaceThenText(From(s, q + 1)).ok
        later == {q \in (st + 1)..Len(s) : ok(q)}
    IN  IF later # {} THEN CHOOSE q \in later : \A q2 \in later : q <= q2
        ELSE IF st > p + 1 /\ st <= Len(s) /\ ok(st) THEN st
        ELSE 0

\* _CHECKBOX_RE on s: [ok, role_ref, label].
CheckboxMatch(s) ==
    LET pre == <<"@", "c", "h", "e", "c", "k", "b", "o", "x", "(">>
        r == Span(From(s, Len(pre) + 1), WordChars)
        p == Len(pre) + r + 1
        q == IF p > Len(s) THEN 0
             ELSE IF s[p] = ")" THEN p
             ELSE IF s[p] = "," THEN CheckboxParamsClose(s, p)
             ELSE 0
        m == SpaceThenText(From(s, q + 1))
    IN  [ok |-> startswith(s, pre) /\ r >= 1 /\ q > 0 /\ m.ok,
         role_ref |-> SubSeq(s, Len(pre) + 1, Len(pre) + r),
         label |-> m.text]

\* _SIGNATURE_RE on s: [ok, layout, line_width] (the groups as the code strips them).
SignatureMatch(s) ==
    LET pre == <<"@", "s", "i", "g", "n", "a", "t", "u", "r", "e", "(">>
        c == Find(s, ",", Len(pre) + 1)
        w == Span(From(s, c + 1), Whitespace)
        r == Span(From(s, c + w + 1), WordChars)
        close == c + w + r + 1
    IN  [ok |-> /\ startswith(s, pre)
                /\ c > Len(pre) + 1
                /\ r >= 1
                /\ close <= Len(s)
                /\ s[close] = ")"
                /\ AllIn(From(s, close + 1), Whitespace),
         layout |-> strip(SubSeq(s, Len(pre) + 1, c - 1)),
         line_width |-> SubSeq(s, c + w + 1, c + w + r)]

\* _OPTION_RE matches at the start of line: whitespace, '|', whitespace.
IsOption(line) ==
    LET w == Span(line, Whitespace)
    IN  /\ w >= 1
        /\ w < Len(line)
        /\ line[w + 1] = "|"
        /\ Span(From(line, w + 2), Whitespace) >= 1

\* re.sub(r'^\s+\|\s+', '', line).strip() for a line _OPTION_RE matches.
OptionText(line) ==
    LET w == Span(line, Whitespace)
    IN  strip(From(line, w + 2 + Span(From(line, w + 2), Whitespace)))

\* What may follow the label of a signature line: '\s*\|\s*(.+)' (sub is
\* TRUE, with what follows the '|'), or whitespace up to the end.
SigRest(t) ==
    LET w == Span(t, Whitespace)
    IN  IF w + 1 < Len(t) /\ t[w + 1] = "|"
        THEN [ok |-> TRUE, sub |-> TRUE, after |-> From(t, w + 2)]
        ELSE [ok |-> w = Len(t), sub |-> FALSE, after |-> <<>>]

\* The pattern of a signature line on sig_line:
\* [ok, sig_role_ref, sig_label, has_subtitle, sig_subtitle].
SigLineMatch(sig_line) ==
    LET r == Span(sig_line, WordChars)
        c == r + Span(From(sig_line, r + 1), Whitespace) + 1
        st0 == c + 1 + Span(From(sig_line, c + 1), Whitespace)
        st == IF st0 > Len(sig_line) THEN Len(sig_line) ELSE st0
        ends == {e \in st..Len(sig_line) : SigRest(From(sig_line, e + 1)).ok}
        e == CHOOSE x \in ends : \A y \in ends : x <= y
        ok == r >= 1 /\ c < Len(sig_line) /\ sig_line[c] = ":"
        rest == SigRest(From(sig_line, e + 1))
        sub == IF ok /\ rest.sub THEN strip(rest.after) ELSE <<>>
    IN  [ok |-> ok,
         sig_role_ref |-> SubSeq(sig_line, 1, r),
         sig_label |-> IF ok THEN strip(SubSeq(sig_line, st, e)) ELSE <<>>,
         has_subtitle |-> sub # <<>>,
         sig_subtitle |-> sub]

\* _ORDERED_RE on s: [ok, text].
OrderedMatch(s) ==
    LET n == Span(s, Digits)
        m == SpaceThenText(From(s, n + 2))
    IN  [ok |-> n >= 1 /\ n < Len(s) /\ s[n + 1] = "." /\ m.ok, text |-> m.text]

\* stripped.startswith('- ')
IsBullet(s) == startswith(s, <<"-", " ">>)

(***************************************************************************)
(* Content parsing: one iteration of the main loop of parse_content        *)
(***************************************************************************)

\* align and stripped for lines[k].
AlignOf(ls, k) == AlignLoop(At(ls, k), 1).align
Stripped(ls, k) == strip(AlignLoop(At(ls, k), 1).content_line)

\* The branch of the main loop taken for align and stripped: the first test
\* that holds.
RuleOf(align, stripped) ==
    IF stripped = <<>> /\ align = None THEN "spacer"
    ELSE IF stripped = <<"-", "-", "-">> THEN "horizontalRule"
    ELSE IF stripped = <<"=", "=", "=">> THEN "pageBreak"
    ELSE IF HeadingMatch(stripped).ok THEN "heading"
    ELSE IF CheckboxMatch(stripped).ok THEN "checkbox"
    ELSE IF SignatureMatch(stripped).ok THEN "signature"
    ELSE IF IsTableRow(stripped) THEN "table"
    ELSE IF IsBullet(stripped) THEN "bulletList"
    ELSE IF OrderedMatch(stripped).ok THEN "orderedList"
    ELSE "paragraph"

\* The branch of the main loop that lines[k] takes.
Rule(ls, k) == RuleOf(AlignOf(ls, k), Stripped(ls, k))

\* The role id with one fallback id for every reference that is not in
\* roles_map.
RoleIdDeclaredOnly(rm, role_ref) ==
    IF role_ref \in DOMAIN rm THEN rm[role_ref].id ELSE make_id(<<>>)

\* role['id'] if role else make_id(role_ref), for role = roles_map.get(role_ref)
RoleId(rm, role_ref) ==
    IF role_ref \in DOMAIN rm THEN rm[role_ref].id ELSE make_id(role_ref)

\* A loop over option lines that stops after the first option line.
OptionsEndAfterOne(ls, k) ==
    IF k < Len(ls) /\ IsOption(At(ls, k)) THEN k + 1 ELSE k

\* The while loops over option lines: the index of the first line at or
\* after k that _OPTION_RE does not match.
RECURSIVE OptionsEnd(_, _)
OptionsEnd(ls, k) ==
    IF k < Len(ls) /\ IsOption(At(ls, k)) THEN OptionsEnd(ls, k + 1) ELSE k

\* An option dict whose id is made from the option line as it is written.
CheckboxOptionOfLine(label, line) ==
    [id |-> make_id(label \o <<":">> \o line), label |-> OptionText(line)]

\* The dict appended to options for an option line.
CheckboxOption(label, line) ==
    LET opt_text == OptionText(line)
    IN  [id |-> make_id(label \o <<":">> \o opt_text), label |-> opt_text]

\* The checkbox branch at lines[k]: [next, out].
CheckboxStep(ls, rm, k) ==
    LET cm == CheckboxMatch(Stripped(ls, k))
        end == OptionsEnd(ls, k + 1)
        options == [j \in 1..(end - k - 1) |-> CheckboxOption(cm.label, At(ls, k + j))]
    IN  [next |-> end,
         out |-> <<[type |-> "interactiveField",
                    attrs |-> [id |-> make_id(<<"c", "h", "e", "c", "k", "b", "o", "x", ":">>
                                              \o cm.label),
                               fieldType |-> "checkbox",
                               roleId |-> RoleId(rm, cm.role_ref),
                               label |-> cm.label,
                               required |-> TRUE,
                               options |-> options,
                               placeholder |-> <<>>,
                               maxLength |-> 0,
                               optionsLayout |-> "vertical"]]>>]

\* The item of a signature line without the test `if sig_subtitle`.
SigItemNoSubtitle(rm, sp) ==
    [id |-> make_id(<<"s", "i", "g", ":">> \o sp.sig_role_ref \o <<":">> \o sp.sig_label),
     roleId |-> RoleId(rm, sp.sig_role_ref), label |-> sp.sig_label, imageOpacity |-> 100]

\* The item built for a signature line the pattern matches.
SigItem(rm, sp) ==
    LET id == make_id(<<"s", "i", "g", ":">> \o sp.sig_role_ref \o <<":">> \o sp.sig_label)
    IN  IF sp.has_subtitle
        THEN [id |-> id, roleId |-> RoleId(rm, sp.sig_role_ref), label |-> sp.sig_label,
              imageOpacity |-> 100, subtitle |-> sp.sig_subtitle]
        ELSE [id |-> id, roleId |-> RoleId(rm, sp.sig_role_ref), label |-> sp.sig_label,
              imageOpacity |-> 100]

\* sig_items for the option lines lines[k..end-1].
RECURSIVE SigItems(_, _, _, _)
SigItems(ls, rm, k, end) ==
    IF k >= end THEN <<>>
    ELSE LET sp == SigLineMatch(OptionText(At(ls, k)))
         IN  (IF sp.ok THEN <<SigItem(rm, sp)>> ELSE <<>>) \o SigItems(ls, rm, k + 1, end)

\* The signature branch at lines[k]: [next, out].
SignatureStep(ls, rm, k) ==
    LET sm == SignatureMatch(Stripped(ls, k))
        end == OptionsEnd(ls, k + 1)
        sig_items == SigItems(ls, rm, k + 1, end)
    IN  [next |-> end,
         out |-> <<[type |-> "signature",
                    attrs |-> [count |-> Len(sig_items),
                               layout |-> sm.layout,
                               lineWidth |-> sm.line_width,
                               signatures |-> sig_items]]>>]

\* The table branch at lines[k]: [next, out].
TableStep(ls, k) ==
    LET t == _parse_table_block(ls, k)
    IN  [next |-> t.next, out |-> IF t.ok THEN <<t.node>> ELSE <<>>]

\* The while loop of the bullet branch: the first index at or after k whose
\* line, stripped, does not start with '- '.
RECURSIVE BulletEnd(_, _)
BulletEnd(ls, k) ==
    IF k < Len(ls) /\ IsBullet(strip(At(ls, k))) THEN BulletEnd(ls, k + 1) ELSE k

\* The bullet branch at lines[k]: [next, out].
BulletStep(ls, k) ==
    LET end == BulletEnd(ls, k)
    IN  [next |-> end,
         out |-> <<[type |-> "bulletList",
                    content |-> [j \in 1..(end - k) |->
                                   _make_list_item(From(strip(At(ls, k + j - 1)), 3))]]>>]

\* The while loop of the ordered branch.
RECURSIVE OrderedEnd(_, _)
OrderedEnd(ls, k) ==
    IF k < Len(ls) /\ OrderedMatch(strip(At(ls, k))).ok THEN OrderedEnd(ls, k + 1) ELSE k

\* The ordered branch at lines[k]: [next, out].
OrderedStep(ls, k) ==
    LET end == OrderedEnd(ls, k)
    IN  [next |-> end,
         out |-> <<[type |-> "orderedList",
                    content |-> [j \in 1..(end - k) |->
                                   _make_list_item(OrderedMatch(strip(At(ls, k + j - 1))).text)]]>>]

\* A spacer branch that appends nothing.
SpacerStepNoNode(k) == [next |-> k + 1, out |-> <<>>]

\* The branches that consume one line: [next, out].
SpacerStep(k) == [next |-> k + 1, out |-> <<[type |-> "paragraph"]>>]
HorizontalRuleStep(k) == [next |-> k + 1, out |-> <<[type |-> "horizontalRule"]>>]
PageBreakStep(k) == [next |-> k + 1, out |-> <<[type |-> "pageBreak"]>>]

HeadingStep(ls, k) ==
    LET hm == HeadingMatch(Stripped(ls, k))
    IN  [next |-> k + 1, out |-> <<_make_heading(hm.text, hm.level, AlignOf(ls, k))>>]

ParagraphStep(ls, k) ==
    [next |-> k + 1, out |-> <<_make_paragraph(Stripped(ls, k), AlignOf(ls, k))>>]

\* One iteration of the main loop at lines[k] for a line that takes branch
\* `rule`: the cursor after it and the nodes it appends.
BranchStep(rule, ls, rm, k) ==
    CASE rule = "spacer" -> SpacerStep(k)
      [] rule = "horizontalRule" -> HorizontalRuleStep(k)
      [] rule = "pageBreak" -> PageBreakStep(k)
      [] rule = "heading" -> HeadingStep(ls, k)
      [] rule = "checkbox" -> CheckboxStep(ls, rm, k)
      [] rule = "signature" -> SignatureStep(ls, rm, k)
      [] rule = "table" -> TableStep(ls, k)
      [] rule = "bulletList" -> BulletStep(ls, k)
      [] rule = "orderedList" -> OrderedStep(ls, k)
      [] OTHER -> ParagraphStep(ls, k)

\* One iteration of the main loop at lines[k].
ContentStep(ls, rm, k) == BranchStep(Rule(ls, k), ls, rm, k)

(***************************************************************************)
(* Variable id collection                                                  *)
(***************************************************************************)

\* A traversal that does not descend into the children of a node.
traverseTop(ns) ==
    {ns[k].attrs.variableId :
        k \in {j \in 1..Len(ns) : ns[j].type = "injector" /\ ns[j].attrs.variableId # <<>>}}

\* traverse(nodes) of collect_variable_ids: the ids it adds to the set.
RECURSIVE traverse(_)
traverse(ns) ==
    UNION {LET node == ns[k]
           IN  (IF node.type = "injector" /\ node.attrs.variableId # <<>>
                THEN {node.attrs.variableId} ELSE {})
               \cup (IF "content" \in DOMAIN node /\ node.content # <<>>
                     THEN traverse(node.content) ELSE {})
           : k \in 1..Len(ns)}

collect_variable_ids(content_nodes) == sorted(traverse(content_nodes))

(***************************************************************************)
(* Section splitting                                                       *)
(***************************************************************************)

\* current = None: no section is open (a section name is never empty).
NoSection == <<>>

\* The empty dict.
EmptyDict == [k \in {} |-> k]

\* d[key] = value on a dict.
DictSet(d, key, value) == [k \in DOMAIN d \cup {key} |-> IF k = key THEN value ELSE d[k]]

\* r'^---(\w+)---\s*$' on line: [ok, name].
MarkerMatch(line) ==
    LET dashes == <<"-", "-", "-">>
        n == Span(From(line, 4), WordChars)
    IN  [ok |-> /\ startswith(line, dashes)
                /\ n >= 1
                /\ startswith(From(line, 4 + n), dashes)
                /\ AllIn(From(line, 7 + n), Whitespace),
         name |-> SubSeq(line, 4, 3 + n)]

\* An iteration that tests every line for a marker, in_content or not.
SplitStepNoLatch(st, line) ==
    LET m == MarkerMatch(line)
    IN  IF m.ok
        THEN [sections |-> IF st.current # NoSection
                           THEN DictSet(st.sections, st.current, st.current_lines)
                           ELSE st.sections,
              current |-> m.name,
              current_lines |-> <<>>,
              in_content |-> m.name = <<"c", "o", "n", "t", "e", "n", "t">>]
        ELSE IF st.current # NoSection
        THEN [st EXCEPT !.current_lines = Append(@, line)]
        ELSE st

\* One iteration of the for loop of split_sections on `line`, from the
\* locals st = [sections, current, current_lines, in_content].
SplitStep(st, line) ==
    LET m == MarkerMatch(line)
    IN  IF st.in_content
        THEN [st EXCEPT !.current_lines = Append(@, line)]
        ELSE IF m.ok
        THEN [sections |-> IF st.current # NoSection
                           THEN DictSet(st.sections, st.current, st.current_lines)
                           ELSE st.sections,
              current |-> m.name,
              current_lines |-> <<>>,
              in_content |-> m.name = <<"c", "o", "n", "t", "e", "n", "t">>]
        ELSE IF st.current # NoSection
        THEN [st EXCEPT !.current_lines = Append(@, line)]
        ELSE st

\* The sections split_sections returns from the locals left by the loop.
SplitReturn(st) ==
    IF st.current # NoSection
    THEN DictSet(st.sections, st.current, st.current_lines)
    ELSE st.sections

(***************************************************************************)
(* Meta, roles, workflow                                                   *)
(***************************************************************************)

\* str.partition(':'): [head, tail] around the first ':' (tail empty without one).
Partition(s) ==
    LET p == Find(s, ":", 1)
    IN  IF p = 0 THEN [head |-> s, tail |-> <<>>]
        ELSE [head |-> SubSeq(s, 1, p - 1), tail |-> From(s, p + 1)]

\* The value of a non-empty string of digits.
RECURSIVE DigitsValue(_)
DigitsValue(s) ==
    IF s = <<>> THEN 0
    ELSE 10 * DigitsValue(SubSeq(s, 1, Len(s) - 1))
         + (CHOOSE v \in 0..9 : <<"0", "1", "2", "3", "4", "5", "6", "7", "8", "9">>[v + 1] = s[Len(s)])

\* s without its '_' characters.
RECURSIVE NoUnderscores(_)
NoUnderscores(s) ==
    IF s = <<>> THEN <<>>
    ELSE (IF Head(s) = "_" THEN <<>> ELSE <<Head(s)>>) \o NoUnderscores(Tail(s))

\* int(s): [ok, value]; ok is FALSE where int() raises ValueError.  A literal
\* is an optional sign and digits, with single '_' allowed between digits.
int(s) ==
    LET t == strip(s)
        signed == t # <<>> /\ t[1] \in {"+", "-"}
        body == IF signed THEN Tail(t) ELSE t
        ok == /\ body # <<>>
              /\ AllIn(body, Digits \cup {"_"})
              /\ body[1] # "_"
              /\ body[Len(body)] # "_"
              /\ \A k \in 1..(Len(body) - 1) : ~(body[k] = "_" /\ body[k + 1] = "_")
        v == DigitsValue(NoUnderscores(body))
    IN  [ok |-> ok,
         value |-> IF ~ok THEN 0 ELSE IF signed /\ t[1] = "-" THEN 0 - v ELSE v]

\* s.upper()
upper(s) ==
    LET Lower == <<"a", "b", "c", "d", "e", "f", "g", "h", "i", "j", "k", "l", "m",
                   "n", "o", "p", "q", "r", "s", "t", "u", "v", "w", "x", "y", "z">>
        Upper == <<"A", "B", "C", "D", "E", "F", "G", "H", "I", "J", "K", "L", "M",
                   "N", "O", "P", "Q", "R", "S", "T", "U", "V", "W", "X", "Y", "Z">>
    IN  [k \in 1..Len(s) |->
            IF \E j \in 1..26 : Lower[j] = s[k]
            THEN Upper[CHOOSE j \in 1..26 : Lower[j] = s[k]]
            ELSE s[k]]

PAGE_SIZES ==
    [LETTER |-> [width |-> 816, height |-> 1056],
     LEGAL |-> [width |-> 816, height |-> 1344],
     A4 |-> [width |-> 794, height |-> 1123]]

\* PAGE_SIZES.get(page_id, PAGE_SIZES['LETTER'])
PageDims(page_id) ==
    IF page_id = <<"L", "E", "G", "A", "L">> THEN PAGE_SIZES.LEGAL
    ELSE IF page_id = <<"A", "4">> THEN PAGE_SIZES.A4
    ELSE PAGE_SIZES.LETTER

\* The for loop of parse_meta: kv after lines[k..].
RECURSIVE MetaLoop(_, _, _)
MetaLoop(ls, k, kv) ==
    IF k > Len(ls) THEN kv
    ELSE LET line == strip(ls[k])
             part == Partition(line)
         IN  IF line = <<>> THEN MetaLoop(ls, k + 1, kv)
             ELSE MetaLoop(ls, k + 1, DictSet(kv, strip(part.head), strip(part.tail)))

\* kv.get(key, default)
Get(kv, key, default) == IF key \in DOMAIN kv THEN kv[key] ELSE default

\* parse_meta: [ok, value]; ok is FALSE where int() raises ValueError.
parse_meta(ls) ==
    LET kv == MetaLoop(ls, 1, EmptyDict)
        page_id == upper(Get(kv, <<"p", "a", "g", "e">>, <<"L", "E", "T", "T", "E", "R">>))
        dims == PageDims(page_id)
        m_val == int(Get(kv, <<"m", "a", "r", "g", "i", "n", "s">>, <<"7", "2">>))
    IN  IF ~m_val.ok THEN [ok |-> FALSE, error |-> "ValueError"]
        ELSE [ok |-> TRUE,
              value |->
                [meta |-> [title |-> Get(kv, <<"t", "i", "t", "l", "e">>, <<>>),
                           description |-> Get(kv, <<"d", "e", "s", "c", "r", "i", "p", "t", "i", "o", "n">>, <<>>),
                           language |-> Get(kv, <<"l", "a", "n", "g", "u", "a", "g", "e">>, <<"e", "s">>)],
                 pageConfig |-> [formatId |-> page_id,
                                 width |-> dims.width,
                                 height |-> dims.height,
                                 margins |-> [top |-> m_val.value, bottom |-> m_val.value,
                                              left |-> m_val.value, right |-> m_val.value]]]]

\* The pattern of a role line on line: [ok, ref, label, order].  The
\* '[order: N]' part is the last bracket of the line; at least one character
\* stands between the ':' and it.
RoleMatch(line) ==
    LET t == rstrip(line)
        r == Span(t, WordChars)
        c == r + Span(From(t, r + 1), Whitespace) + 1
        b == RFind(t, "[", Len(t))
        w1 == Span(From(t, b + 6), Whitespace)
        c2 == b + 6 + w1
        w2 == Span(From(t, c2 + 1), Whitespace)
        dg == Span(From(t, c2 + 1 + w2), Digits)
        ok == /\ r >= 1
              /\ c <= Len(t)
              /\ t[c] = ":"
              /\ b > c + 1
              /\ b + 5 <= Len(t)
              /\ SubSeq(t, b, b + 5) = <<"[", "o", "r", "d", "e", "r">>
              /\ c2 <= Len(t)
              /\ t[c2] = ":"
              /\ dg >= 1
              /\ c2 + w2 + dg + 1 = Len(t)
              /\ t[Len(t)] = "]"
    IN  [ok |-> ok,
         ref |-> SubSeq(t, 1, r),
         label |-> IF ok THEN strip(SubSeq(t, c + 1, b - 1)) ELSE <<>>,
         order |-> IF ok THEN DigitsValue(SubSeq(t, c2 + 1 + w2, c2 + w2 + dg)) ELSE 0]

\* The role dict built for a matching line.
Role(m) ==
    [id |-> make_id(m.ref),
     label |-> m.label,
     name |-> [type |-> "text", value |-> <<>>],
     email |-> [type |-> "text", value |-> <<>>],
     order |-> m.order]

\* The for loop of parse_roles over lines[k..]: [roles, roles_map].
RECURSIVE RolesLoop(_, _, _, _)
RolesLoop(ls, k, rs, rm) ==
    IF k > Len(ls) THEN [roles |-> rs, roles_map |-> rm]
    ELSE LET line == strip(ls[k])
             m == RoleMatch(line)
         IN  IF line = <<>> THEN RolesLoop(ls, k + 1, rs, rm)
             ELSE IF ~m.ok THEN RolesLoop(ls, k + 1, rs, rm)
             ELSE RolesLoop(ls, k + 1, Append(rs, Role(m)), DictSet(rm, m.ref, Role(m)))

\* parse_roles with the roles in the reverse of the order of their lines.
parse_roles_reversed(ls) ==
    LET r == RolesLoop(ls, 1, <<>>, EmptyDict)
    IN  [roles |-> [k \in 1..Len(r.roles) |-> r.roles[Len(r.roles) + 1 - k]],
         roles_map |-> r.roles_map]

parse_roles(ls) == RolesLoop(ls, 1, <<>>, EmptyDict)

\* The for loop of parse_workflow over lines[k..]: mode.
RECURSIVE WorkflowLoop(_, _, _)
WorkflowLoop(ls, k, mode) ==
    IF k > Len(ls) THEN mode
    ELSE LET line == strip(ls[k])
         IN  IF startswith(line, <<"m", "o", "d", "e", ":">>)
             THEN WorkflowLoop(ls, k + 1, strip(Partition(line).tail))
             ELSE WorkflowLoop(ls, k + 1, mode)

parse_workflow(ls) ==
    [orderMode |-> WorkflowLoop(ls, 1, <<"s", "e", "q", "u", "e", "n", "t", "i", "a", "l">>),
     notifications |->
        [scope |-> "global",
         globalTriggers |->
            [on_document_created |-> [enabled |-> FALSE],
             on_previous_roles_signed |->
                [enabled |-> FALSE,
                 previousRolesConfig |-> [mode |-> "auto", selectedRoleIds |-> <<>>]],
             on_turn_to_sign |-> [enabled |-> TRUE],
             on_all_signatures_complete |-> [enabled |-> FALSE]],
         roleConfigs |-> <<>>]]

(***************************************************************************)
(* parse_content as a state machine: one action per branch of its loop     *)
(***************************************************************************)

\* Content sections are made of at most MaxChunks of the chunks below.
MaxChunks == 2

\* A run that has made MaxStall iterations more than it has lines is cut off
\* (an iteration that does not move the cursor repeats for ever).
MaxStall == 2

\* The chunks of content lines:
\*   ''
\*   '---'
\*   '==='
\*   '## [b|B]'
\*   '@right # T'
\*   '@checkbox(buyer) Accept terms' / '  | Yes' / '  | No'
\*   '@checkbox(guest, x) Ok'
\*   '@signature(row, md)' / '  | buyer: Firma | Sub' / '  | guest: Firma'
\*   '  | Yes'
\*   '|Name|[sku|SKU]|' / '|a|[ |x]|'
\*   '- [a|A]' / '- *i*'
\*   '1. x' / '2. [a|A]'
\*   '[b|B] [a|A][a|A]'
\*   '@center |a|'
\*   '@center - x'
\*   '@center 1. x'
\*   '@center **t**'
\*   '@justify '
\*   '@checkbox(guest) Pick' / '  | Yes' / '   |  Yes ' / '@signature(col, sm)' /
\*     '  | buyer: Firma' / '  | buyer: Firma | Sub2' / '  | guest: Firma'
Chunks ==
    {
     <<<<"@", "c", "h", "e", "c", "k", "b", "o", "x", "(", "g", "u", "e", "s", "t", ")", " ", "P", "i", "c", "k">>,
       <<" ", " ", "|", " ", "Y", "e", "s">>,
       <<" ", " ", " ", "|", " ", " ", "Y", "e", "s", " ">>,
       <<"@", "s", "i", "g", "n", "a", "t", "u", "r", "e", "(", "c", "o", "l", ",", " ", "s", "m", ")">>,
       <<" ", " ", "|", " ", "b", "u", "y", "e", "r", ":", " ", "F", "i", "r", "m", "a">>,
       <<" ", " ", "|", " ", "b", "u", "y", "e", "r", ":", " ", "F", "i", "r", "m", "a", " ", "|", " ", "S", "u", "b", "2">>,
       <<" ", " ", "|", " ", "g", "u", "e", "s", "t", ":", " ", "F", "i", "r", "m", "a">>>>,
     <<<<>>>>,
     <<<<"-", "-", "-">>>>,
     <<<<"=", "=", "=">>>>,
     <<<<"#", "#", " ", "[", "b", "|", "B", "]">>>>,
     <<<<"@", "r", "i", "g", "h", "t", " ", "#", " ", "T">>>>,
     <<<<"@", "c", "h", "e", "c", "k", "b", "o", "x", "(", "b", "u", "y", "e", "r", ")", " ", "A", "c", "c", "e", "p", "t", " ", "t", "e", "r", "m", "s">>,
       <<" ", " ", "|", " ", "Y", "e", "s">>,
       <<" ", " ", "|", " ", "N", "o">>>>,
     <<<<"@", "c", "h", "e", "c", "k", "b", "o", "x", "(", "g", "u", "e", "s", "t", ",", " ", "x", ")", " ", "O", "k">>>>,
     <<<<"@", "s", "i", "g", "n", "a", "t", "u", "r", "e", "(", "r", "o", "w", ",", " ", "m", "d", ")">>,
       <<" ", " ", "|", " ", "b", "u", "y", "e", "r", ":", " ", "F", "i", "r", "m", "a", " ", "|", " ", "S", "u", "b">>,
       <<" ", " ", "|", " ", "g", "u", "e", "s", "t", ":", " ", "F", "i", "r", "m", "a">>>>,
     <<<<" ", " ", "|", " ", "Y", "e", "s">>>>,
     <<<<"|", "N", "a", "m", "e", "|", "[", "s", "k", "u", "|", "S", "K", "U", "]", "|">>,
       <<"|", "a", "|", "[", " ", "|", "x", "]", "|">>>>,
     <<<<"-", " ", "[", "a", "|", "A", "]">>,
       <<"-", " ", "*", "i", "*">>>>,
     <<<<"1", ".", " ", "x">>,
       <<"2", ".", " ", "[", "a", "|", "A", "]">>>>,
     <<<<"[", "b", "|", "B", "]", " ", "[", "a", "|", "A", "]", "[", "a", "|", "A", "]">>>>,
     <<<<"@", "c", "e", "n", "t", "e", "r", " ", "|", "a", "|">>>>,
     <<<<"@", "c", "e", "n", "t", "e", "r", " ", "-", " ", "x">>>>,
     <<<<"@", "c", "e", "n", "t", "e", "r", " ", "1", ".", " ", "x">>>>,
     <<<<"@", "c", "e", "n", "t", "e", "r", " ", "*", "*", "t", "*", "*">>>>,
     <<<<"@", "j", "u", "s", "t", "i", "f", "y", " ">>>>
    }

\* A content section of blank lines only has at most MaxBlank lines.
MaxBlank == 3

\* The blank lines: '', '  ' and a tab followed by a space.
BlankLines == {<<>>, <<" ", " ">>, <<"\t", " ">>}

ContentDocs ==
    {Concat(cs) : cs \in SeqsUpTo(Chunks, MaxChunks)} \cup SeqsUpTo(BlankLines, MaxBlank)

\* roles_map as parse_roles returns it: without roles, and with the one role
\* 'buyer: Comprador [order: 1]'.
RoleMaps ==
    {parse_roles(<<>>).roles_map,
     parse_roles(<<<<"b", "u", "y", "e", "r", ":", " ", "C", "o", "m", "p", "r", "a", "d", "o", "r", " ", "[", "o", "r", "d", "e", "r", ":", " ", "1", "]">>>>).roles_map}

SplitIdle ==
    /\ text = <<>>
    /\ ln = 0
    /\ sections = EmptyDict
    /\ current = NoSection
    /\ current_lines = <<>>
    /\ in_content = FALSE

ContentIdle ==
    /\ lines = <<>>
    /\ roles_map = EmptyDict
    /\ i = 0
    /\ nodes = <<>>
    /\ iter = 0
    /\ variable_ids = <<>>

InlineIdle ==
    /\ tokens = <<>>
    /\ tok_no = 0
    /\ bold = FALSE
    /\ italic = FALSE
    /\ underline = FALSE

ConvertIdle ==
    /\ meta_info = EmptyDict
    /\ roles = <<>>
    /\ workflow = EmptyDict
    /\ document = EmptyDict
    /\ raised = None
    /\ written = FALSE

CallIdle ==
    /\ arg = <<>>
    /\ ret = <<>>

\* parse_content(lines, roles_map) is entered: nodes = [], i = 0.
InitContent ==
    /\ pc = "loop"
    /\ lines \in ContentDocs
    /\ roles_map \in RoleMaps
    /\ i = 0
    /\ nodes = <<>>
    /\ iter = 0
    /\ variable_ids = <<>>
    /\ SplitIdle /\ InlineIdle /\ ConvertIdle /\ CallIdle

\* The while loop is at a line that takes branch `rule`.
AtRule(rule) ==
    /\ pc = "loop"
    /\ i < Len(lines)
    /\ iter < Len(lines) + MaxStall
    /\ Rule(lines, i) = rule

\* The iteration is run: the branch appends its nodes and sets the cursor.
Advance(st) ==
    /\ i' = st.next
    /\ nodes' = nodes \o st.out
    /\ iter' = iter + 1
    /\ UNCHANGED <<pc, lines, roles_map, variable_ids>>
    /\ UNCHANGED <<splitVars, inlineVars, convertVars, callVars>>

Spacer ==
    /\ AtRule("spacer")
    /\ Advance(SpacerStep(i))

HorizontalRule ==
    /\ AtRule("horizontalRule")
    /\ Advance(HorizontalRuleStep(i))

PageBreak ==
    /\ AtRule("pageBreak")
    /\ Advance(PageBreakStep(i))

Heading ==
    /\ AtRule("heading")
    /\ Advance(HeadingStep(lines, i))

Checkbox ==
    /\ AtRule("checkbox")
    /\ Advance(CheckboxStep(lines, roles_map, i))

Signature ==
    /\ AtRule("signature")
    /\ Advance(SignatureStep(lines, roles_map, i))

Table ==
    /\ AtRule("table")
    /\ Advance(TableStep(lines, i))

BulletList ==
    /\ AtRule("bulletList")
    /\ Advance(BulletStep(lines, i))

OrderedList ==
    /\ AtRule("orderedList")
    /\ Advance(OrderedStep(lines, i))

Paragraph ==
    /\ AtRule("paragraph")
    /\ Advance(ParagraphStep(lines, i))

\* The loop ends: return nodes.
ContentReturn ==
    /\ pc = "loop"
    /\ ~(i < Len(lines))
    /\ pc' = "done"
    /\ UNCHANGED <<contentVars, splitVars, inlineVars, convertVars, callVars>>

\* variable_ids = collect_variable_ids(content_nodes)
Collect ==
    /\ pc = "done"
    /\ variable_ids' = collect_variable_ids(nodes)
    /\ pc' = "collected"
    /\ UNCHANGED <<lines, roles_map, i, nodes, iter>>
    /\ UNCHANGED <<splitVars, inlineVars, convertVars, callVars>>

NextContent ==
    \/ Spacer \/ HorizontalRule \/ PageBreak \/ Heading \/ Checkbox \/ Signature
    \/ Table \/ BulletList \/ OrderedList \/ Paragraph \/ ContentReturn \/ Collect

SpecContent == InitContent /\ [][NextContent]_vars

(***************************************************************************)
(* Properties of parse_content and collect_variable_ids                    *)
(***************************************************************************)

\* C1: every iteration of the main loop of parse_content, whichever branch
\* runs it, leaves the line cursor i at least one line further.
C1_EveryIterationAdvances == [][iter' # iter => i' >= i + 1]_vars

\* The variableIds of the injectors among the inline nodes of a block node.
InlineInjectorIds(node) ==
    IF "content" \in DOMAIN node
    THEN {node.content[k].attrs.variableId :
            k \in {j \in 1..Len(node.content) : node.content[j].type = "injector"}}
    ELSE {}

\* The variableIds of all injectors of a tree of parse_content, block type by
\* block type: paragraphs and headings hold inline nodes, lists hold items
\* of one paragraph each, tables hold rows of cells that hold inline nodes.
AllInjectorIds(ns) ==
    UNION {LET node == ns[k]
           IN  IF node.type \in {"paragraph", "heading"} THEN InlineInjectorIds(node)
               ELSE IF node.type \in {"bulletList", "orderedList"}
               THEN UNION {InlineInjectorIds(node.content[j].content[1]) :
                             j \in 1..Len(node.content)}
               ELSE IF node.type = "table"
               THEN UNION {UNION {InlineInjectorIds(node.content[r].content[c]) :
                                    c \in 1..Len(node.content[r].content)} :
                             r \in 1..Len(node.content)}
               ELSE {}
           : k \in 1..Len(ns)}

\* Each value once, in ascending order.
StrictlyAscending(ids) == \A k \in 1..(Len(ids) - 1) : StrLess(ids[k], ids[k + 1])

Elements(ids) == {ids[k] : k \in 1..Len(ids)}

OptionLinesAfter(ls, k) ==
    CHOOSE n \in 0..(Len(ls) - k - 1) :
        /\ \A j \in 1..n : IsOption(At(ls, k + j))
        /\ (k + n + 1 < Len(ls) => ~IsOption(At(ls, k + n + 1)))

\* C7: the checkbox branch at a directive with label L followed by k option
\* lines appends one interactiveField whose id is make_id('checkbox:' + L),
\* whose required is true and whose options are the k entries
\* {id: make_id(L + ':' + T), label: T} in source order, and leaves the cursor
\* on the line after the last option line.
C7_CheckboxOptions ==
    [][Checkbox =>
        LET L == CheckboxMatch(Stripped(lines, i)).label
            k == OptionLinesAfter(lines, i)
            field == nodes'[Len(nodes')]
        IN  /\ i' = i + 1 + k
            /\ (i' < Len(lines) => ~IsOption(At(lines, i')))
            /\ Len(nodes') = Len(nodes) + 1
            /\ SubSeq(nodes', 1, Len(nodes)) = nodes
            /\ field.type = "interactiveField"
            /\ field.attrs.id = make_id(<<"c", "h", "e", "c", "k", "b", "o", "x", ":">> \o L)
            /\ field.attrs.required = TRUE
            /\ Len(field.attrs.options) = k
            /\ \A j \in 1..k :
                 LET T == OptionText(At(lines, i + j))
                 IN  field.attrs.options[j] = [id |-> make_id(L \o <<":">> \o T), label |-> T]
            /\ (/\ At(lines, i) = <<"@", "c", "h", "e", "c", "k", "b", "o", "x", "(", "b", "u", "y", "e", "r", ")", " ", "A", "c", "c", "e", "p", "t", " ", "t", "e", "r", "m", "s">>
                /\ k = 2
                /\ At(lines, i + 1) = <<" ", " ", "|", " ", "Y", "e", "s">>
                /\ At(lines, i + 2) = <<" ", " ", "|", " ", "N", "o">>
                => field.attrs.options =
                     <<[id |-> make_id(<<"A", "c", "c", "e", "p", "t", " ", "t", "e", "r", "m", "s", ":", "Y", "e", "s">>), label |-> <<"Y", "e", "s">>],
                       [id |-> make_id(<<"A", "c", "c", "e", "p", "t", " ", "t", "e", "r", "m", "s", ":", "N", "o">>), label |-> <<"N", "o">>]>>)
    ]_vars

\* '@checkbox(buyer) Accept terms' with its options Yes and No has been
\* parsed and the cursor is on the line after them, which is no option line.
C7_Witness ==
    /\ pc = "loop"
    /\ Len(lines) = 4
    /\ i = 3
    /\ ~IsOption(At(lines, 3))
    /\ Len(nodes) = 1
    /\ nodes[1].type = "interactiveField"
    /\ nodes[1].attrs.label = <<"A", "c", "c", "e", "p", "t", " ", "t", "e", "r", "m", "s">>
    /\ Len(nodes[1].attrs.options) = 2

(***************************************************************************)
(* split_sections as a state machine: one action per branch of its loop    *)
(***************************************************************************)

\* A text has at most MaxSplitLines lines.
MaxSplitLines == 4

\* The lines a text is made of:
\*   '---meta---'
\*   '---content---'
\*   '---roles--- '
\*   'title: T'
\*   '---a b---'
SplitLines ==
    {<<"-", "-", "-", "m", "e", "t", "a", "-", "-", "-">>,
     <<"-", "-", "-", "c", "o", "n", "t", "e", "n", "t", "-", "-", "-">>,
     <<"-", "-", "-", "r", "o", "l", "e", "s", "-", "-", "-", " ">>,
     <<"t", "i", "t", "l", "e", ":", " ", "T">>,
     <<"-", "-", "-", "a", " ", "b", "-", "-", "-">>}

\* text.split('\n') for the texts split: `text` holds the list of lines.
SplitTexts == SeqsUpTo(SplitLines, MaxSplitLines)

\* split_sections(text) is entered.
InitSplit ==
    /\ pc = "split"
    /\ text \in SplitTexts
    /\ ln = 0
    /\ sections = EmptyDict
    /\ current = NoSection
    /\ current_lines = <<>>
    /\ in_content = FALSE
    /\ ContentIdle /\ InlineIdle /\ ConvertIdle /\ CallIdle

\* The for loop is at a line.
AtLine ==
    /\ pc = "split"
    /\ ln < Len(text)

\* The iteration on text[ln] is run on the locals.
SplitIterate(st) ==
    /\ sections' = st.sections
    /\ current' = st.current
    /\ current_lines' = st.current_lines
    /\ in_content' = st.in_content
    /\ ln' = ln + 1
    /\ UNCHANGED <<pc, text>>
    /\ UNCHANGED <<contentVars, inlineVars, convertVars, callVars>>

SplitLocals ==
    [sections |-> sections, current |-> current,
     current_lines |-> current_lines, in_content |-> in_content]

\* if in_content: current_lines.append(line); continue
SplitInContent ==
    /\ AtLine
    /\ in_content
    /\ SplitIterate(SplitStep(SplitLocals, At(text, ln)))

\* if m: the open section is stored and the marker's section is opened.
SplitMarker ==
    /\ AtLine
    /\ ~in_content
    /\ MarkerMatch(At(text, ln)).ok
    /\ SplitIterate(SplitStep(SplitLocals, At(text, ln)))

\* elif current is not None: current_lines.append(line)
SplitSectionLine ==
    /\ AtLine
    /\ ~in_content
    /\ ~MarkerMatch(At(text, ln)).ok
    /\ current # NoSection
    /\ SplitIterate(SplitStep(SplitLocals, At(text, ln)))

\* A line before the first marker is dropped.
SplitSkip ==
    /\ AtLine
    /\ ~in_content
    /\ ~MarkerMatch(At(text, ln)).ok
    /\ current = NoSection
    /\ SplitIterate(SplitStep(SplitLocals, At(text, ln)))

\* The loop ends: the open section is stored and sections is returned.
SplitDone ==
    /\ pc = "split"
    /\ ~(ln < Len(text))
    /\ sections' = SplitReturn(SplitLocals)
    /\ pc' = "split_done"
    /\ UNCHANGED <<text, ln, current, current_lines, in_content>>
    /\ UNCHANGED <<contentVars, inlineVars, convertVars, callVars>>

NextSplit ==
    \/ SplitInContent \/ SplitMarker \/ SplitSectionLine \/ SplitSkip \/ SplitDone

SpecSplit == InitSplit /\ [][NextSplit]_vars

\* The lines '---meta---' and '---content---'.
MetaMarker == <<"-", "-", "-", "m", "e", "t", "a", "-", "-", "-">>
ContentMarker == <<"-", "-", "-", "c", "o", "n", "t", "e", "n", "t", "-", "-", "-">>

\* The name 'content'.
ContentName == <<"c", "o", "n", "t", "e", "n", "t">>

\* line is a marker line that opens the section named content.
IsContentMarker(line) == MarkerMatch(line).ok /\ MarkerMatch(line).name = ContentName

\* A marker line opening content is among the first n lines of the text.
ContentMarkerSeen(n) == \E k \in 1..n : IsContentMarker(text[k])

\* The number of the first marker line opening content.
FirstContentMarker == CHOOSE k \in 1..Len(text) :
    IsContentMarker(text[k]) /\ \A j \in 1..(k - 1) : ~IsContentMarker(text[j])

\* C2: once a marker line opening content has been read, each further line,
\* marker-shaped or not, is appended verbatim to the lines of the open
\* section, which stays content, and no section is stored or changed; at the
\* end the content section holds exactly the lines after that marker, in
\* order, and the other sections are those stored before it.
C2_ContentLatch ==
    [][ContentMarkerSeen(ln) /\ pc = "split" =>
        /\ current = ContentName
        /\ current' = ContentName
        /\ (ln' = ln + 1 =>
              /\ current_lines' = Append(current_lines, text[ln + 1])
              /\ sections' = sections)
        /\ (pc' = "split_done" =>
              /\ sections'[ContentName] = SubSeq(text, FirstContentMarker + 1, Len(text))
              /\ DOMAIN sections' = DOMAIN sections \cup {ContentName}
              /\ \A name \in DOMAIN sections \ {ContentName} : sections'[name] = sections[name])
    ]_vars

\* '---meta---', 'title: T', '---content---', '---meta---' has been split:
\* the second '---meta---' is a content line and meta holds 'title: T'.
C2_Witness ==
    /\ pc = "split_done"
    /\ text = <<<<"-", "-", "-", "m", "e", "t", "a", "-", "-", "-">>, <<"t", "i", "t", "l", "e", ":", " ", "T">>, <<"-", "-", "-", "c", "o", "n", "t", "e", "n", "t", "-", "-", "-">>, <<"-", "-", "-", "m", "e", "t", "a", "-", "-", "-">>>>
    /\ sections[ContentName] = <<<<"-", "-", "-", "m", "e", "t", "a", "-", "-", "-">>>>
    /\ sections[<<"m", "e", "t", "a">>] = <<<<"t", "i", "t", "l", "e", ":", " ", "T">>>>

(***************************************************************************)
(* parse_inline as a state machine: one action per branch of its loop      *)
(***************************************************************************)

\* A line of inline text has at most MaxInline characters, or is one of
\* InlineExamples.
MaxInline == 4

\* '**Bold** and [v1|Full Name]', '[[|a]', '[a|b|c]', '***__a', '[a*|b]',
\* '*[a| b ]*', '__[a|b||]'
InlineExamples ==
    {<<"*", "[", "a", "|", " ", "b", " ", "]", "*">>,
     <<"_", "_", "[", "a", "|", "b", "|", "|", "]">>} \cup
    {<<"*", "*", "B", "o", "l", "d", "*", "*", " ", "a", "n", "d", " ", "[", "v", "1", "|", "F", "u", "l", "l", " ", "N", "a", "m", "e", "]">>,
     <<"[", "[", "|", "a", "]">>,
     <<"[", "a", "|", "b", "|", "c", "]">>,
     <<"*", "*", "*", "_", "_", "a">>,
     <<"[", "a", "*", "|", "b", "]">>}

\* The lines parsed: those over the characters below, and the examples.
InlineTexts == SeqsUpTo({"*", "_", "[", "]", "|", "a", " "}, MaxInline) \cup InlineExamples

\* parse_inline(raw_text) is called with raw_text = arg.
InitInline ==
    /\ pc = "inline_call"
    /\ arg \in InlineTexts
    /\ ret = <<>>
    /\ InlineIdle /\ SplitIdle /\ ContentIdle /\ ConvertIdle

\* if not raw_text: return []
InlineEmpty ==
    /\ pc = "inline_call"
    /\ arg = <<>>
    /\ ret' = <<>>
    /\ pc' = "inline_done"
    /\ UNCHANGED <<arg, inlineVars, splitVars, contentVars, convertVars>>

\* tokens = _INLINE_TOKEN_RE.split(raw_text); nodes = []; the flags are False.
InlineSplit ==
    /\ pc = "inline_call"
    /\ arg # <<>>
    /\ tokens' = TokenSplit(arg, 1, 1)
    /\ tok_no' = 0
    /\ ret' = <<>>
    /\ bold' = FALSE
    /\ italic' = FALSE
    /\ underline' = FALSE
    /\ pc' = "inline"
    /\ UNCHANGED <<arg, splitVars, contentVars, convertVars>>

\* The for loop is at the token tok = tokens[tok_no] (counted from 0).
AtToken ==
    /\ pc = "inline"
    /\ tok_no < Len(tokens)

\* The token the loop is at.
Tok == At(tokens, tok_no)

\* The next token is taken; b, it, u are the flags and out the nodes after it.
InlineIterate(b, it, u, out) ==
    /\ bold' = b
    /\ italic' = it
    /\ underline' = u
    /\ ret' = out
    /\ tok_no' = tok_no + 1
    /\ UNCHANGED <<pc, arg, tokens, splitVars, contentVars, convertVars>>

\* if not tok: continue
InlineSkipEmpty ==
    /\ AtToken
    /\ Tok = <<>>
    /\ InlineIterate(bold, italic, underline, ret)

\* if tok == '**': bold = not bold
ToggleBold ==
    /\ AtToken
    /\ Tok = <<"*", "*">>
    /\ InlineIterate(~bold, italic, underline, ret)

\* if tok == '*': italic = not italic
ToggleItalic ==
    /\ AtToken
    /\ Tok = <<"*">>
    /\ InlineIterate(bold, ~italic, underline, ret)

\* if tok == '__': underline = not underline
ToggleUnderline ==
    /\ AtToken
    /\ Tok = <<"_", "_">>
    /\ InlineIterate(bold, italic, ~underline, ret)

\* The token is no toggle.
AtContentToken ==
    /\ AtToken
    /\ Tok \notin {<<>>, <<"*", "*">>, <<"*">>, <<"_", "_">>}

\* if inj: an injector node is appended.
InlineInjector ==
    /\ AtContentToken
    /\ InjectorGroups(Tok) # <<>>
    /\ InlineIterate(bold, italic, underline, Append(ret, InlineNode(Tok, bold, italic, underline)))

\* Plain text: a text node with the marks of the flags is appended.
InlineText ==
    /\ AtContentToken
    /\ InjectorGroups(Tok) = <<>>
    /\ InlineIterate(bold, italic, underline, Append(ret, InlineNode(Tok, bold, italic, underline)))

\* return nodes
InlineReturn ==
    /\ pc = "inline"
    /\ ~(tok_no < Len(tokens))
    /\ pc' = "inline_done"
    /\ UNCHANGED <<arg, ret, inlineVars, splitVars, contentVars, convertVars>>

NextInline ==
    \/ InlineEmpty \/ InlineSplit \/ InlineSkipEmpty \/ ToggleBold \/ ToggleItalic
    \/ ToggleUnderline \/ InlineInjector \/ InlineText \/ InlineReturn

SpecInline == InitInline /\ [][NextInline]_vars

\* The delimiters among the tokens read so far that are equal to d: the
\* pattern's matches are the tokens at the even places of the split.
DelimitersRead(d) == {k \in 1..tok_no : k % 2 = 0 /\ tokens[k] = d}

Odd(n) == n % 2 = 1

\* C8: the flags start false and are flipped by the delimiters only: bold by
\* each '**', italic by each '*' that is not adjacent to another '*',
\* underline by each '__'; a text run carries the marks of the flags that are
\* true when it is emitted, in the order bold, italic, underline, and none
\* when all are false.
C8_FlagsFollowDelimiters ==
    /\ pc = "inline" =>
        /\ bold = Odd(Cardinality(DelimitersRead(<<"*", "*">>)))
        /\ italic = Odd(Cardinality(DelimitersRead(<<"*">>)))
        /\ underline = Odd(Cardinality(DelimitersRead(<<"_", "_">>)))
    /\ (/\ pc = "inline" /\ tok_no > 0 /\ ret # <<>>
        /\ ret[Len(ret)].type = "text"
        /\ ret[Len(ret)].text = tokens[tok_no]) =>
        /\ "marks" \in DOMAIN ret[Len(ret)] <=> (bold \/ italic \/ underline)
        /\ "marks" \in DOMAIN ret[Len(ret)] => ret[Len(ret)].marks = MarksList(bold, italic, underline)

\* The parts of a bracket group between its brackets, split at '|'.
GroupParts(tok) == SplitOn(SubSeq(tok, 2, Len(tok) - 1), "|")

\* tok has the shape [A|B] or [A|B|C], the parts non-empty and without
\* brackets (a part holds no '|' since the parts are split at them).
HasInjectorShape(tok) ==
    /\ Len(GroupParts(tok)) \in {2, 3}
    /\ \A k \in 1..Len(GroupParts(tok)) :
         /\ GroupParts(tok)[k] # <<>>
         /\ \A j \in 1..Len(GroupParts(tok)[k]) : GroupParts(tok)[k][j] \notin {"[", "]"}

\* C9: a bracket group of the shape [A|B] or [A|B|C] yields an injector with
\* variableId trim(A), label trim(B) and type trim(C) or 'TEXT'; every other
\* bracket group yields a text run of the group itself with the active marks.
C9_InjectorShape ==
    [][AtToken /\ tok_no % 2 = 1 /\ Tok[1] = "[" =>
        LET parts == GroupParts(Tok)
            node == ret'[Len(ret')]
        IN  /\ Len(ret') = Len(ret) + 1
            /\ IF HasInjectorShape(Tok)
               THEN /\ node.type = "injector"
                    /\ node.attrs.variableId = strip(parts[1])
                    /\ node.attrs.label = strip(parts[2])
                    /\ node.attrs.type = IF Len(parts) = 3 THEN strip(parts[3])
                                         ELSE <<"T", "E", "X", "T">>
               ELSE /\ node.type = "text"
                    /\ node.text = Tok
                    /\ IF bold \/ italic \/ underline
                       THEN node.marks = MarksList(bold, italic, underline)
                       ELSE "marks" \notin DOMAIN node
    ]_vars

(***************************************************************************)
(* _split_table_cells on the inner text of table rows                      *)
(***************************************************************************)

\* The inner text of a row has at most MaxRow characters, or is that of the
\* row '|Name|[sku|SKU]|'.
MaxRow == 4

ExampleRow == <<"|", "N", "a", "m", "e", "|", "[", "s", "k", "u", "|", "S", "K", "U", "]", "|">>

RowTexts ==
    (SeqsUpTo({"[", "]", "|", "a", " "}, MaxRow) \ {<<>>}) \cup {TableRowInner(ExampleRow)}

\* _split_table_cells(row_text) is called with row_text = arg.
InitTable ==
    /\ pc = "cells_call"
    /\ arg \in RowTexts
    /\ ret = <<>>
    /\ SplitIdle /\ ContentIdle /\ InlineIdle /\ ConvertIdle

SplitCells ==
    /\ pc = "cells_call"
    /\ ret' = _split_table_cells(arg)
    /\ pc' = "cells_done"
    /\ UNCHANGED <<arg, splitVars, contentVars, inlineVars, convertVars>>

SpecTable == InitTable /\ [][SplitCells]_vars

\* The bracket depth before s[p]: one more for each '[', one less for each
\* ']' that does not take it below 0.
RECURSIVE DepthBefore(_, _)
DepthBefore(s, p) ==
    IF p = 1 THEN 0
    ELSE IF s[p - 1] = "[" THEN DepthBefore(s, p - 1) + 1
    ELSE IF s[p - 1] = "]" /\ DepthBefore(s, p - 1) > 0 THEN DepthBefore(s, p - 1) - 1
    ELSE DepthBefore(s, p - 1)

\* The places of the column delimiters of s: the '|' at depth 0.
Delimiters(s) == {p \in 1..Len(s) : s[p] = "|" /\ DepthBefore(s, p) = 0}

\* The place of the delimiter before place p (0 without one).
DelimiterBefore(s, p) ==
    IF \E q \in Delimiters(s) : q < p
    THEN CHOOSE q \in Delimiters(s) : q < p /\ \A r \in Delimiters(s) : r < p => r <= q
    ELSE 0

\* The n-th delimiter of s.
NthDelimiter(s, n) ==
    CHOOSE q \in Delimiters(s) : Cardinality({r \in Delimiters(s) : r <= q}) = n

\* C6: the cells are the segments of the row text that end at a '|' at
\* bracket depth 0, trimmed and in order, followed by the segment after the
\* last such '|' when it is not empty after trimming; a '|' at a depth above
\* 0 ends no cell.  '|Name|[sku|SKU]|' has the cells 'Name' and '[sku|SKU]'.
C6_SplitAtDepthZero ==
    pc = "cells_done" =>
        LET n == Cardinality(Delimiters(arg))
            tail == strip(SubSeq(arg, DelimiterBefore(arg, Len(arg) + 1) + 1, Len(arg)))
        IN  /\ Len(ret) = n + (IF tail # <<>> THEN 1 ELSE 0)
            /\ \A k \in 1..n :
                 ret[k] = strip(SubSeq(arg, DelimiterBefore(arg, NthDelimiter(arg, k)) + 1,
                                       NthDelimiter(arg, k) - 1))
            /\ (tail # <<>> => ret[n + 1] = tail)
            /\ (arg = TableRowInner(ExampleRow) =>
                  ret = <<<<"N", "a", "m", "e">>, <<"[", "s", "k", "u", "|", "S", "K", "U", "]">>>>)

\* The cells of '|Name|[sku|SKU]|' have been split.
C6_Witness ==
    /\ pc = "cells_done"
    /\ arg = TableRowInner(ExampleRow)
    /\ Len(ret) = 2
    /\ ret[2] = <<"[", "s", "k", "u", "|", "S", "K", "U", "]">>

(***************************************************************************)
(* parse_roles on role sections                                            *)
(***************************************************************************)

\* A roles section has at most MaxRoleLines lines.
MaxRoleLines == 3

\* The lines of a roles section:
\*   'b: B [order: 2]'
\*   'a: A [order: 1]'
\*   'a: Z [order: 3]'
\*   ' d : D[order:0] '
\*   'c: C'
\*   ''
RoleLines ==
    {<<"b", ":", " ", "B", " ", "[", "o", "r", "d", "e", "r", ":", " ", "2", "]">>,
     <<"a", ":", " ", "A", " ", "[", "o", "r", "d", "e", "r", ":", " ", "1", "]">>,
     <<"a", ":", " ", "Z", " ", "[", "o", "r", "d", "e", "r", ":", " ", "3", "]">>,
     <<" ", "d", " ", ":", " ", "D", "[", "o", "r", "d", "e", "r", ":", "0", "]", " ">>,
     <<"c", ":", " ", "C">>,
     <<>>}

\* parse_roles(lines) is called with lines = arg.
InitRoles ==
    /\ pc = "roles_call"
    /\ arg \in SeqsUpTo(RoleLines, MaxRoleLines)
    /\ ret = <<>>
    /\ SplitIdle /\ ContentIdle /\ InlineIdle /\ ConvertIdle

ParseRoles ==
    /\ pc = "roles_call"
    /\ ret' = parse_roles(arg)
    /\ pc' = "roles_done"
    /\ UNCHANGED <<arg, splitVars, contentVars, inlineVars, convertVars>>

SpecRoles == InitRoles /\ [][ParseRoles]_vars

\* The numbers of the lines of ls the role pattern matches.
RoleLineNos(ls) == {k \in 1..Len(ls) : RoleMatch(strip(ls[k])).ok}

\* The number of the line of the n-th role.
NthRoleLine(ls, n) ==
    CHOOSE k \in RoleLineNos(ls) : Cardinality({j \in RoleLineNos(ls) : j <= k}) = n

\* C10: the roles are one per matching line, in the order of the lines
\* whatever their order values; the n-th role has id make_id(reference) and
\* the label and order of the n-th matching line; other lines add nothing.
C10_DeclarationOrder ==
    pc = "roles_done" =>
        /\ Len(ret.roles) = Cardinality(RoleLineNos(arg))
        /\ \A n \in 1..Len(ret.roles) :
             LET m == RoleMatch(strip(arg[NthRoleLine(arg, n)]))
             IN  /\ ret.roles[n].id = make_id(m.ref)
                 /\ ret.roles[n].label = m.label
                 /\ ret.roles[n].order = m.order

\* 'b: B [order: 2]', 'c: C', 'a: A [order: 1]' has been parsed: the roles
\* are b then a, and 'c: C' gave none.
C10_Witness ==
    /\ pc = "roles_done"
    /\ arg = <<<<"b", ":", " ", "B", " ", "[", "o", "r", "d", "e", "r", ":", " ", "2", "]">>, <<"c", ":", " ", "C">>, <<"a", ":", " ", "A", " ", "[", "o", "r", "d", "e", "r", ":", " ", "1", "]">>>>
    /\ Len(ret.roles) = 2
    /\ ret.roles[1].id = make_id(<<"b">>)
    /\ ret.roles[1].order = 2
    /\ ret.roles[2].id = make_id(<<"a">>)
    /\ ret.roles[2].order = 1

(***************************************************************************)
(* convert_docml: the whole conversion of one file                         *)
(***************************************************************************)

VERSION == <<"1", ".", "1", ".", "0">>

SOURCE_APP == <<"d", "o", "c", "-", "a", "s", "s", "e", "m", "b", "l", "y", "-", "w", "e", "b", "/", "1", ".", "1", ".", "0">>

\* The section names convert_docml looks up.
MetaName == <<"m", "e", "t", "a">>
RolesName == <<"r", "o", "l", "e", "s">>
WorkflowName == <<"w", "o", "r", "k", "f", "l", "o", "w">>

\* The meta parts of the files converted: none, or '---meta---' followed by
\*   'title: T'
\*   'margins: abc'
\*   'margins: 10' / 'page: a4'
\*   'no colon here' / ''
MetaParts ==
    {<<>>,
     <<MetaMarker, <<"t", "i", "t", "l", "e", ":", " ", "T">>>>,
     <<MetaMarker, <<"m", "a", "r", "g", "i", "n", "s", ":", " ", "a", "b", "c">>>>,
     <<MetaMarker, <<"m", "a", "r", "g", "i", "n", "s", ":", " ", "1", "0">>, <<"p", "a", "g", "e", ":", " ", "a", "4">>>>,
     <<MetaMarker, <<"n", "o", " ", "c", "o", "l", "o", "n", " ", "h", "e", "r", "e">>, <<>>>>}

\* The roles parts: none, or '---roles---' followed by
\*   'buyer: Comprador [order: 1]' / 'not a role'
\*   'buyer: A [order: 2]' / 'buyer: B [order: 1]'
RolesParts ==
    {<<>>,
     <<<<"-", "-", "-", "r", "o", "l", "e", "s", "-", "-", "-">>, <<"b", "u", "y", "e", "r", ":", " ", "A", " ", "[", "o", "r", "d", "e", "r", ":", " ", "2", "]">>, <<"b", "u", "y", "e", "r", ":", " ", "B", " ", "[", "o", "r", "d", "e", "r", ":", " ", "1", "]">>>>,
     <<<<"-", "-", "-", "r", "o", "l", "e", "s", "-", "-", "-">>, <<"b", "u", "y", "e", "r", ":", " ", "C", "o", "m", "p", "r", "a", "d", "o", "r", " ", "[", "o", "r", "d", "e", "r", ":", " ", "1", "]">>, <<"n", "o", "t", " ", "a", " ", "r", "o", "l", "e">>>>}

\* The workflow parts: none, or '---workflow---' followed by
\*   'mode: parallel' / 'speed: fast'
WorkflowParts ==
    {<<>>,
     <<<<"-", "-", "-", "w", "o", "r", "k", "f", "l", "o", "w", "-", "-", "-">>, <<"m", "o", "d", "e", ":", " ", "p", "a", "r", "a", "l", "l", "e", "l">>, <<"s", "p", "e", "e", "d", ":", " ", "f", "a", "s", "t">>>>}

\* The content parts: none, or '---content---' followed by no line or by the
\* lines of one chunk.
ContentParts ==
    {<<>>} \cup {<<ContentMarker>> \o c : c \in Chunks \cup {<<>>}}

\* What stands before the first marker: nothing, or the line 'docml v1'.
Preambles == {<<>>, <<<<"d", "o", "c", "m", "l", " ", "v", "1">>>>}

\* The files converted, as text.split('\n') gives their lines.
ConvertTexts ==
    {p \o m \o r \o w \o c :
        p \in Preambles, m \in MetaParts, r \in RolesParts, w \in WorkflowParts,
        c \in ContentParts}

\* What datetime.now() may give.
Timestamps == {"t1", "t2"}

\* convert_docml is entered with the text read: split_sections(text) starts.
Init ==
    /\ pc = "split"
    /\ text \in ConvertTexts
    /\ ln = 0
    /\ sections = EmptyDict
    /\ current = NoSection
    /\ current_lines = <<>>
    /\ in_content = FALSE
    /\ ContentIdle /\ InlineIdle /\ ConvertIdle /\ CallIdle

\* if 'meta' not in sections: raise ValueError
MissingMeta ==
    /\ pc = "split_done"
    /\ MetaName \notin DOMAIN sections
    /\ raised' = "ValueError"
    /\ pc' = "failed"
    /\ UNCHANGED <<meta_info, roles, workflow, document, written>>
    /\ UNCHANGED <<splitVars, contentVars, inlineVars, callVars>>

\* The test for the content section made after the output file is opened.
MissingContentLate ==
    /\ pc = "split_done"
    /\ MetaName \in DOMAIN sections
    /\ ContentName \notin DOMAIN sections
    /\ raised' = "ValueError"
    /\ written' = TRUE
    /\ pc' = "failed"
    /\ UNCHANGED <<meta_info, roles, workflow, document>>
    /\ UNCHANGED <<splitVars, contentVars, inlineVars, callVars>>

\* if 'content' not in sections: raise ValueError
MissingContent ==
    /\ pc = "split_done"
    /\ MetaName \in DOMAIN sections
    /\ ContentName \notin DOMAIN sections
    /\ raised' = "ValueError"
    /\ pc' = "failed"
    /\ UNCHANGED <<meta_info, roles, workflow, document, written>>
    /\ UNCHANGED <<splitVars, contentVars, inlineVars, callVars>>

\* Both sections are there.
SectionsChecked ==
    /\ pc = "split_done"
    /\ MetaName \in DOMAIN sections
    /\ ContentName \in DOMAIN sections

\* meta_info = parse_meta(sections['meta'])
ParseMeta ==
    /\ SectionsChecked
    /\ parse_meta(sections[MetaName]).ok
    /\ meta_info' = parse_meta(sections[MetaName]).value
    /\ pc' = "meta_done"
    /\ UNCHANGED <<roles, workflow, document, raised, written>>
    /\ UNCHANGED <<splitVars, contentVars, inlineVars, callVars>>

\* int() in parse_meta raises ValueError, which convert_docml lets through.
ParseMetaRaises ==
    /\ SectionsChecked
    /\ ~parse_meta(sections[MetaName]).ok
    /\ raised' = parse_meta(sections[MetaName]).error
    /\ pc' = "failed"
    /\ UNCHANGED <<meta_info, roles, workflow, document, written>>
    /\ UNCHANGED <<splitVars, contentVars, inlineVars, callVars>>

\* roles, roles_map = parse_roles(sections.get('roles', []))
ParseRolesSection ==
    /\ pc = "meta_done"
    /\ roles' = parse_roles(Get(sections, RolesName, <<>>)).roles
    /\ roles_map' = parse_roles(Get(sections, RolesName, <<>>)).roles_map
    /\ pc' = "roles_parsed"
    /\ UNCHANGED <<meta_info, workflow, document, raised, written>>
    /\ UNCHANGED <<lines, i, nodes, iter, variable_ids>>
    /\ UNCHANGED <<splitVars, inlineVars, callVars>>

\* workflow = parse_workflow(sections.get('workflow', [])), and
\* parse_content(sections['content'], roles_map) is entered.
ParseWorkflow ==
    /\ pc = "roles_parsed"
    /\ workflow' = parse_workflow(Get(sections, WorkflowName, <<>>))
    /\ lines' = sections[ContentName]
    /\ i' = 0
    /\ nodes' = <<>>
    /\ iter' = 0
    /\ pc' = "loop"
    /\ UNCHANGED <<meta_info, roles, document, raised, written>>
    /\ UNCHANGED <<roles_map, variable_ids>>
    /\ UNCHANGED <<splitVars, inlineVars, callVars>>

\* document = {...}, with now = datetime.now(timezone.utc)
Assemble ==
    /\ pc = "collected"
    /\ \E now \in Timestamps :
         document' = [version |-> VERSION,
                      meta |-> meta_info.meta,
                      pageConfig |-> meta_info.pageConfig,
                      variableIds |-> variable_ids,
                      signerRoles |-> roles,
                      signingWorkflow |-> workflow,
                      content |-> [type |-> "doc", content |-> nodes],
                      exportInfo |-> [exportedAt |-> now, sourceApp |-> SOURCE_APP]]
    /\ pc' = "assembled"
    /\ UNCHANGED <<meta_info, roles, workflow, raised, written>>
    /\ UNCHANGED <<splitVars, contentVars, inlineVars, callVars>>

\* json.dump(document, f) into the output file; return document.
WriteOutput ==
    /\ pc = "assembled"
    /\ written' = TRUE
    /\ pc' = "returned"
    /\ UNCHANGED <<meta_info, roles, workflow, document, raised>>
    /\ UNCHANGED <<splitVars, contentVars, inlineVars, callVars>>

Next ==
    \/ NextSplit
    \/ MissingMeta \/ MissingContent \/ ParseMeta \/ ParseMetaRaises
    \/ ParseRolesSection \/ ParseWorkflow
    \/ NextContent
    \/ Assemble \/ WriteOutput

Spec == Init /\ [][Next]_vars

\* C5: a conversion raises an error only when the meta section or the
\* content section is missing after splitting.
C5_FailsOnlyOnMissingSection ==
    raised # None => (MetaName \notin DOMAIN sections \/ ContentName \notin DOMAIN sections)

(***************************************************************************)
(* Further properties of parse_content                                     *)
(***************************************************************************)

\* Every line of ls is empty or made of whitespace only.
AllBlank(ls) == \A k \in 1..Len(ls) : AllIn(ls[k], Whitespace)

\* C11: for a content section of N lines that are all blank, parse_content
\* returns exactly N nodes, each a paragraph with no content and no attrs.
C11_BlankLinesAreSpacers ==
    pc = "done" /\ AllBlank(lines) =>
        /\ Len(nodes) = Len(lines)
        /\ \A k \in 1..Len(nodes) :
             nodes[k].type = "paragraph" /\ DOMAIN nodes[k] = {"type"}

\* Three blank lines, not all of them empty, have been parsed into three nodes.
C11_Witness ==
    /\ pc = "done"
    /\ Len(lines) = 3
    /\ AllBlank(lines)
    /\ lines[2] # <<>>
    /\ Len(nodes) = 3

\* The nodes of the given type among the nodes built so far.
NodesOfType(type) == {nodes[k] : k \in {j \in 1..Len(nodes) : nodes[j].type = type}}

\* Any two options of one checkbox with the same text have the same id.
SameTextSameOptionId ==
    \A n \in NodesOfType("interactiveField") :
        \A j, k \in 1..Len(n.attrs.options) :
            n.attrs.options[j].label = n.attrs.options[k].label
                => n.attrs.options[j].id = n.attrs.options[k].id

\* C12 as stated: within one directive, options with the same text have the
\* same id, and signature items with the same label have the same id.
C12_SameLabelSameId ==
    /\ SameTextSameOptionId
    /\ \A n \in NodesOfType("signature") :
         \A j, k \in 1..Len(n.attrs.signatures) :
            n.attrs.signatures[j].label = n.attrs.signatures[k].label
                => n.attrs.signatures[j].id = n.attrs.signatures[k].id

\* C12, amended: within one directive, options with the same text have the
\* same id; signature items have the same id exactly when they have the
\* same role and the same label, so that items with the same label and
\* different roles have different ids.
C12_SameRoleAndLabelSameId ==
    /\ SameTextSameOptionId
    /\ \A n \in NodesOfType("signature") :
         \A j, k \in 1..Len(n.attrs.signatures) :
            (/\ n.attrs.signatures[j].label = n.attrs.signatures[k].label
             /\ n.attrs.signatures[j].roleId = n.attrs.signatures[k].roleId)
                <=> n.attrs.signatures[j].id = n.attrs.signatures[k].id

\* A checkbox with two options of the same text and a signature with two
\* items of the same role and label, and a third of another role, are built.
C12_Witness ==
    /\ \E n \in NodesOfType("interactiveField") :
         /\ Len(n.attrs.options) = 2
         /\ n.attrs.options[1].label = n.attrs.options[2].label
    /\ \E n \in NodesOfType("signature") :
         /\ Len(n.attrs.signatures) = 3
         /\ n.attrs.signatures[1].label = n.attrs.signatures[2].label
         /\ n.attrs.signatures[1].roleId = n.attrs.signatures[2].roleId
         /\ n.attrs.signatures[3].label = n.attrs.signatures[1].label
         /\ n.attrs.signatures[3].roleId # n.attrs.signatures[1].roleId

\* The text of a signature line carries a '| subtitle' part: after the
\* colon and a first character of label there is a '|' with text after it.
CarriesSubtitle(sig_line) ==
    LET c == Find(sig_line, ":", 1)
        s == c + 1 + Span(From(sig_line, c + 1), Whitespace)
    IN  \E p \in (s + 1)..Len(sig_line) :
            /\ sig_line[p] = "|"
            /\ \E q \in (p + 1)..Len(sig_line) : sig_line[q] \notin Whitespace

\* The n-th number of the set S of numbers.
NthOf(S, n) == CHOOSE x \in S : Cardinality({y \in S : y <= x}) = n

\* The signature branch has appended one signature node and left the cursor
\* after the k option lines that follow the directive; of these the lines
\* numbered in `from` have given the items, in order, each with the id, the
\* label and (when its text carries one) the subtitle of its line.
SignatureItemsFrom(k, from) ==
    LET sig == nodes'[Len(nodes')]
    IN  /\ i' = i + 1 + k
        /\ (i' < Len(lines) => ~IsOption(At(lines, i')))
        /\ Len(nodes') = Len(nodes) + 1
        /\ SubSeq(nodes', 1, Len(nodes)) = nodes
        /\ sig.type = "signature"
        /\ sig.attrs.count = Len(sig.attrs.signatures)
        /\ sig.attrs.count = Cardinality(from)
        /\ \A m \in 1..Cardinality(from) :
             LET t == OptionText(At(lines, i + NthOf(from, m)))
                 sp == SigLineMatch(t)
                 item == sig.attrs.signatures[m]
             IN  /\ item.id = make_id(<<"s", "i", "g", ":">> \o sp.sig_role_ref \o <<":">> \o sp.sig_label)
                 /\ item.label = sp.sig_label
                 /\ ("subtitle" \in DOMAIN item <=> CarriesSubtitle(t))
                 /\ ("subtitle" \in DOMAIN item => item.subtitle = sp.sig_subtitle)

\* C14 as stated: the signature branch appends one signature node whose count
\* is the length of its signatures and the number of option lines consumed
\* after the directive, with one item per consumed line.
C14_OneItemPerLine ==
    [][Signature =>
        LET k == OptionLinesAfter(lines, i)
        IN  SignatureItemsFrom(k, 1..k)
    ]_vars

\* C14, amended: the signature branch appends one signature node and passes
\* the directive and the option lines after it; count is the length of
\* signatures, which is the number of the consumed lines whose text has the
\* form 'role: label'; these give the items in order, each with id
\* make_id('sig:' + role + ':' + label) and a subtitle exactly when its line
\* carries one; a consumed line of another form gives no item and no node.
C14_OneItemPerSignatureLine ==
    [][Signature =>
        LET k == OptionLinesAfter(lines, i)
            from == {j \in 1..k : SigLineMatch(OptionText(At(lines, i + j))).ok}
        IN  /\ SignatureItemsFrom(k, from)
            /\ (/\ At(lines, i) = <<"@", "s", "i", "g", "n", "a", "t", "u", "r", "e", "(", "r", "o", "w", ",", " ", "m", "d", ")">>
                /\ k = 2
                /\ At(lines, i + 1) = <<" ", " ", "|", " ", "b", "u", "y", "e", "r", ":", " ", "F", "i", "r", "m", "a", " ", "|", " ", "S", "u", "b">>
                /\ At(lines, i + 2) = <<" ", " ", "|", " ", "g", "u", "e", "s", "t", ":", " ", "F", "i", "r", "m", "a">>
                => nodes'[Len(nodes')].attrs.signatures =
                     <<[id |-> make_id(<<"s", "i", "g", ":", "b", "u", "y", "e", "r", ":", "F", "i", "r", "m", "a">>), roleId |-> RoleId(roles_map, <<"b", "u", "y", "e", "r">>),
                        label |-> <<"F", "i", "r", "m", "a">>, imageOpacity |-> 100, subtitle |-> <<"S", "u", "b">>],
                       [id |-> make_id(<<"s", "i", "g", ":", "g", "u", "e", "s", "t", ":", "F", "i", "r", "m", "a">>), roleId |-> RoleId(roles_map, <<"g", "u", "e", "s", "t">>),
                        label |-> <<"F", "i", "r", "m", "a">>, imageOpacity |-> 100]>>)
    ]_vars

\* '@signature(row, md)' / '  | buyer: Firma | Sub' / '  | guest: Firma' /
\* '  | Yes' has been parsed: the three option lines are consumed and the
\* signature node has the two items of the lines of the form 'role: label',
\* the first with a subtitle.
C14_Witness ==
    /\ pc = "done"
    /\ Len(lines) = 4
    /\ lines[1] = <<"@", "s", "i", "g", "n", "a", "t", "u", "r", "e", "(", "r", "o", "w", ",", " ", "m", "d", ")">>
    /\ lines[4] = <<" ", " ", "|", " ", "Y", "e", "s">>
    /\ i = 4
    /\ Len(nodes) = 1
    /\ nodes[1].type = "signature"
    /\ nodes[1].attrs.count = 2
    /\ "subtitle" \in DOMAIN nodes[1].attrs.signatures[1]
    /\ "subtitle" \notin DOMAIN nodes[1].attrs.signatures[2]

\* The lines of the roles section.
RolesSection == Get(sections, RolesName, <<>>)

\* The numbers n of the roles of signerRoles that role_ref declares.
DeclarationsOf(role_ref) ==
    {n \in 1..Len(roles) :
        RoleMatch(strip(RolesSection[NthRoleLine(RolesSection, n)])).ref = role_ref}

\* role_id is make_id(role_ref), and the id of every role of signerRoles that
\* role_ref declares.
ResolvesTo(role_id, role_ref) ==
    /\ role_id = make_id(role_ref)
    /\ \A n \in DeclarationsOf(role_ref) : roles[n].id = role_id

\* C15: the roleId of the checkbox node of a directive, and of the signature
\* item of a signature line, is make_id(roleRef) for the roleRef of the
\* directive or line, whether the roles section declares roleRef (it is then
\* the id of that role in signerRoles, also when roleRef is declared more
\* than once) or not.
C15_RoleIdOfReference ==
    [][/\ Checkbox =>
            ResolvesTo(nodes'[Len(nodes')].attrs.roleId,
                       CheckboxMatch(Stripped(lines, i)).role_ref)
       /\ Signature =>
            LET k == OptionLinesAfter(lines, i)
                from == {j \in 1..k : SigLineMatch(OptionText(At(lines, i + j))).ok}
                signatures == nodes'[Len(nodes')].attrs.signatures
            IN  /\ Len(signatures) = Cardinality(from)
                /\ \A m \in 1..Cardinality(from) :
                     ResolvesTo(signatures[m].roleId,
                                SigLineMatch(OptionText(At(lines, i + NthOf(from, m)))).sig_role_ref)
    ]_vars

\* A document whose roles section declares buyer twice and guest never has
\* been converted: the checkbox of guest has the id made of 'guest', which is
\* the id of no role; the signature items of buyer have the id that both
\* roles of signerRoles have, and the item of guest has the id of the checkbox.
C15_Witness ==
    /\ pc = "returned"
    /\ Len(roles) = 2
    /\ roles[1].id = make_id(<<"b", "u", "y", "e", "r">>)
    /\ roles[2].id = make_id(<<"b", "u", "y", "e", "r">>)
    /\ roles[1].label # roles[2].label
    /\ Len(nodes) = 2
    /\ nodes[1].type = "interactiveField"
    /\ nodes[1].attrs.roleId = make_id(<<"g", "u", "e", "s", "t">>)
    /\ nodes[2].type = "signature"
    /\ nodes[2].attrs.count = 3
    /\ nodes[2].attrs.signatures[1].roleId = roles[1].id
    /\ nodes[2].attrs.signatures[2].roleId = roles[2].id
    /\ nodes[2].attrs.signatures[3].roleId = nodes[1].attrs.roleId
    /\ document.signerRoles = roles
    /\ document.content.content = nodes

\* The node itself has a textAlign attribute.
HasTextAlign(node) == "attrs" \in DOMAIN node /\ "textAlign" \in DOMAIN node.attrs

\* The node or a node below it has a textAlign attribute.
RECURSIVE CarriesTextAlign(_)
CarriesTextAlign(node) ==
    \/ HasTextAlign(node)
    \/ /\ "content" \in DOMAIN node
       /\ \E k \in 1..Len(node.content) : CarriesTextAlign(node.content[k])

\* The alignment prefixes, each with its value.
PrefixValues ==
    {<<<<"@", "c", "e", "n", "t", "e", "r", " ">>, "center">>, <<<<"@", "r", "i", "g", "h", "t", " ">>, "right">>, <<<<"@", "j", "u", "s", "t", "i", "f", "y", " ">>, "justify">>}

\* C16: of the nodes that an iteration of parse_content appends, only a
\* top-level paragraph or heading has a textAlign attribute, and only when
\* the line of the iteration begins with '@center ', '@right ' or '@justify ',
\* with the value of that prefix; no node below a top-level node has one (no
\* list-item paragraph, no table cell), whatever lines the node was made from.
C16_TextAlignOnlyFromPrefix ==
    [][iter' # iter =>
        \A k \in (Len(nodes) + 1)..Len(nodes') :
            LET node == nodes'[k]
            IN  /\ "content" \in DOMAIN node =>
                     \A c \in 1..Len(node.content) : ~CarriesTextAlign(node.content[c])
                /\ HasTextAlign(node) =>
                     /\ node.type \in {"paragraph", "heading"}
                     /\ \E pv \in PrefixValues :
                          /\ startswith(At(lines, i), pv[1])
                          /\ node.attrs.textAlign = pv[2]
    ]_vars

\* '@right # T' / '@center **t**' has been parsed into a heading aligned
\* right and a paragraph aligned center.
C16_Witness ==
    /\ pc = "done"
    /\ lines = <<<<"@", "r", "i", "g", "h", "t", " ", "#", " ", "T">>,
                 <<"@", "c", "e", "n", "t", "e", "r", " ", "*", "*", "t", "*", "*">>>>
    /\ Len(nodes) = 2
    /\ nodes[1].type = "heading"
    /\ nodes[1].attrs.textAlign = "right"
    /\ nodes[2].type = "paragraph"
    /\ nodes[2].attrs.textAlign = "center"

\* The number of consecutive table-row lines that follow lines[k].
TableRowsAfter(ls, k) ==
    CHOOSE n \in 0..(Len(ls) - k - 1) :
        /\ \A j \in 1..n : IsTableRow(strip(At(ls, k + j)))
        /\ (k + n + 1 < Len(ls) => ~IsTableRow(strip(At(ls, k + n + 1))))

\* C17: the table branch at a line followed by n table-row lines appends
\* exactly one table node whose rows are that line and the n lines after it,
\* in order, the first row of tableHeader cells only and every later row of
\* tableCell cells only, and leaves the cursor on the line after them.
C17_OneTablePerRun ==
    [][Table =>
        LET n == TableRowsAfter(lines, i)
            table == nodes'[Len(nodes')]
        IN  /\ Len(nodes') = Len(nodes) + 1
            /\ SubSeq(nodes', 1, Len(nodes)) = nodes
            /\ table.type = "table"
            /\ Len(table.content) = n + 1
            /\ \A r \in 1..(n + 1) :
                 /\ table.content[r].type = "tableRow"
                 /\ \A c \in 1..Len(table.content[r].content) :
                      table.content[r].content[c].type =
                          (IF r = 1 THEN "tableHeader" ELSE "tableCell")
            /\ \A r \in 2..(n + 1) :
                 Len(table.content[r].content) =
                     Len(_split_table_cells(TableRowInner(strip(At(lines, i + r - 1)))))
            /\ i' = i + n + 1
    ]_vars

\* C18: when convert_docml has raised an error, the output file has not been
\* opened and no document has been assembled; an error is raised only for a
\* missing meta section, a missing content section or a margins value that
\* int() refuses, never for an absent roles or workflow section: a conversion
\* that returns without them has no signer roles and the order mode
\* 'sequential'.
C18_NoPartialOutput ==
    /\ raised # None =>
         /\ ~written
         /\ document = EmptyDict
         /\ pc = "failed"
         /\ \/ MetaName \notin DOMAIN sections
            \/ ContentName \notin DOMAIN sections
            \/ ~parse_meta(sections[MetaName]).ok
    /\ written => raised = None /\ pc = "returned"
    /\ pc = "returned" =>
         /\ written
         /\ (RolesName \notin DOMAIN sections => document.signerRoles = <<>>)
         /\ (WorkflowName \notin DOMAIN sections =>
               document.signingWorkflow.orderMode = <<"s", "e", "q", "u", "e", "n", "t", "i", "a", "l">>)

\* A text with a meta section and no content, roles or workflow section has
\* failed with the error of the missing content section, and nothing is
\* written.
C18_Witness ==
    /\ pc = "failed"
    /\ raised = "ValueError"
    /\ MetaName \in DOMAIN sections
    /\ ContentName \notin DOMAIN sections
    /\ RolesName \notin DOMAIN sections
    /\ WorkflowName \notin DOMAIN sections
    /\ ~written
    /\ document = EmptyDict

(***************************************************************************)
(* main: the conversion of a list of input files                           *)
(***************************************************************************)

\* main is given at most MaxInputs input paths.
MaxInputs == 2

\* The files at the input paths, as the lines of their text:
\*   'docml v1' / '---meta---' / 'title: T' / '---roles---' /
\*     'buyer: Comprador [order: 1]' / '---content---' / '' / '---' / '===' /
\*     '## [b|B]' / '@checkbox(buyer) Ok' / '  | Yes' / '@signature(row, md)' /
\*     '  | buyer: Firma' / '|a|' / '- x' / '1. y' / 'plain'
\*   '---content---' / 'x'
\*   '---meta---' / 'title: T'
\*   '---meta---' / 'margins: abc' / '---content---'
\*   '---meta---' / '---content---' / '@center |a|'
MainFiles ==
    {<<<<"d", "o", "c", "m", "l", " ", "v", "1">>,
       <<"-", "-", "-", "m", "e", "t", "a", "-", "-", "-">>,
       <<"t", "i", "t", "l", "e", ":", " ", "T">>,
       <<"-", "-", "-", "r", "o", "l", "e", "s", "-", "-", "-">>,
       <<"b", "u", "y", "e", "r", ":", " ", "C", "o", "m", "p", "r", "a", "d", "o", "r", " ", "[", "o", "r", "d", "e", "r", ":", " ", "1", "]">>,
       <<"-", "-", "-", "c", "o", "n", "t", "e", "n", "t", "-", "-", "-">>,
       <<>>,
       <<"-", "-", "-">>,
       <<"=", "=", "=">>,
       <<"#", "#", " ", "[", "b", "|", "B", "]">>,
       <<"@", "c", "h", "e", "c", "k", "b", "o", "x", "(", "b", "u", "y", "e", "r", ")", " ", "O", "k">>,
       <<" ", " ", "|", " ", "Y", "e", "s">>,
       <<"@", "s", "i", "g", "n", "a", "t", "u", "r", "e", "(", "r", "o", "w", ",", " ", "m", "d", ")">>,
       <<" ", " ", "|", " ", "b", "u", "y", "e", "r", ":", " ", "F", "i", "r", "m", "a">>,
       <<"|", "a", "|">>,
       <<"-", " ", "x">>,
       <<"1", ".", " ", "y">>,
       <<"p", "l", "a", "i", "n">>>>,
     <<<<"-", "-", "-", "c", "o", "n", "t", "e", "n", "t", "-", "-", "-">>,
       <<"x">>>>,
     <<<<"-", "-", "-", "m", "e", "t", "a", "-", "-", "-">>,
       <<"t", "i", "t", "l", "e", ":", " ", "T">>>>,
     <<<<"-", "-", "-", "m", "e", "t", "a", "-", "-", "-">>,
       <<"m", "a", "r", "g", "i", "n", "s", ":", " ", "a", "b", "c">>,
       <<"-", "-", "-", "c", "o", "n", "t", "e", "n", "t", "-", "-", "-">>>>,
     <<<<"-", "-", "-", "m", "e", "t", "a", "-", "-", "-">>,
       <<"-", "-", "-", "c", "o", "n", "t", "e", "n", "t", "-", "-", "-">>,
       <<"@", "c", "e", "n", "t", "e", "r", " ", "|", "a", "|">>>>}

\* main() is entered: arg holds args (the files at args.inputs, and whether
\* args.output is given), ret holds the locals of main: the number of paths
\* looped over, errors, the exit status, and a log of the paths on which
\* convert_docml was called and of how each call ended.
InitMain ==
    /\ pc = "main"
    /\ arg \in [inputs : SeqsUpTo(MainFiles, MaxInputs) \ {<<>>}, output : BOOLEAN]
    /\ ret = [path_no |-> 0, errors |-> 0, status |-> 0, attempted |-> <<>>, outcomes |-> <<>>]
    /\ SplitIdle /\ ContentIdle /\ InlineIdle /\ ConvertIdle

\* if args.output and len(args.inputs) > 1: sys.exit(1)
MainUsageError ==
    /\ pc = "main"
    /\ arg.output /\ Len(arg.inputs) > 1
    /\ ret' = [ret EXCEPT !.status = 1]
    /\ pc' = "exited"
    /\ UNCHANGED <<arg, splitVars, contentVars, inlineVars, convertVars>>

\* for path in args.inputs: convert_docml(path, args.output) is called and
\* reads the text of the file.
StartFile ==
    /\ \/ pc = "main" /\ ~(arg.output /\ Len(arg.inputs) > 1)
       \/ pc = "next_file"
    /\ ret.path_no < Len(arg.inputs)
    /\ ret' = [ret EXCEPT !.attempted = Append(@, ret.path_no + 1)]
    /\ text' = At(arg.inputs, ret.path_no)
    /\ ln' = 0
    /\ sections' = EmptyDict
    /\ current' = NoSection
    /\ current_lines' = <<>>
    /\ in_content' = FALSE
    /\ lines' = <<>>
    /\ roles_map' = EmptyDict
    /\ i' = 0
    /\ nodes' = <<>>
    /\ iter' = 0
    /\ variable_ids' = <<>>
    /\ meta_info' = EmptyDict
    /\ roles' = <<>>
    /\ workflow' = EmptyDict
    /\ document' = EmptyDict
    /\ raised' = None
    /\ written' = FALSE
    /\ pc' = "split"
    /\ UNCHANGED <<arg, inlineVars>>

\* convert_docml returns: the loop goes on with the next path.
FileDone ==
    /\ pc = "returned"
    /\ ret' = [ret EXCEPT !.path_no = @ + 1, !.outcomes = Append(@, "ok")]
    /\ pc' = "next_file"
    /\ UNCHANGED <<arg, splitVars, contentVars, inlineVars, convertVars>>

\* except Exception: errors += 1
FileFailed ==
    /\ pc = "failed"
    /\ ret' = [ret EXCEPT !.path_no = @ + 1, !.errors = @ + 1,
                          !.outcomes = Append(@, "error")]
    /\ pc' = "next_file"
    /\ UNCHANGED <<arg, splitVars, contentVars, inlineVars, convertVars>>

\* The loop ends: if errors: sys.exit(1)
MainExit ==
    /\ \/ pc = "main" /\ ~(arg.output /\ Len(arg.inputs) > 1)
       \/ pc = "next_file"
    /\ ~(ret.path_no < Len(arg.inputs))
    /\ ret' = [ret EXCEPT !.status = IF ret.errors # 0 THEN 1 ELSE 0]
    /\ pc' = "exited"
    /\ UNCHANGED <<arg, splitVars, contentVars, inlineVars, convertVars>>

SpecMain ==
    InitMain /\ [][MainUsageError \/ StartFile \/ Next \/ FileDone \/ FileFailed \/ MainExit]_vars

\* The arguments are those of a batch run: not --output with several inputs.
BatchArgs == ~(arg.output /\ Len(arg.inputs) > 1)

\* C13: in a batch run convert_docml is called on the input paths in order,
\* once each, and the run goes on whatever became of the earlier paths: no
\* iteration of a conversion leaves the conversion where it was (it would
\* then repeat for ever, and the later paths would never be reached); when
\* the run exits, convert_docml has been called on every path and the status
\* is non-zero if and only if a call has failed.
C13_EveryInputAttempted ==
    /\ [](BatchArgs =>
            /\ ret.attempted = [k \in 1..Len(ret.attempted) |-> k]
            /\ Len(ret.attempted) <= Len(arg.inputs)
            /\ (pc = "exited" =>
                  /\ Len(ret.attempted) = Len(arg.inputs)
                  /\ Len(ret.outcomes) = Len(arg.inputs)
                  /\ (ret.status # 0 <=>
                        \E k \in 1..Len(ret.outcomes) : ret.outcomes[k] = "error")))
    /\ [][BatchArgs /\ pc = "loop" /\ pc' = "loop" => <<i, nodes>>' # <<i, nodes>>]_vars

====
